---- MODULE Spec2Model ----
(***************************************************************************)
(* State-machine model of backend/trading_engine.py (TradingEngine): the   *)
(* tracked-signal map and its SQLite store, the startup reconciliation     *)
(* against the broker terminal (MT5) and the crypto exchange (Bybit), the  *)
(* alert handler with its dedup and spread gates, trade execution, the     *)
(* update-action handler and the protection monitor.                       *)
(*                                                                         *)
(* Prices are integers in price units; the broker's point is Point units.  *)
(* Volumes are integers in units of the broker's volume step (0.01 lot).   *)
(* Every handler is one action: the engine runs on one event loop and the  *)
(* handlers modelled here contain no suspension point that yields to       *)
(* another handler before they return (the venue calls are synchronous).   *)
(* SpecSched runs the same handlers statement group by statement group     *)
(* under the event loop's rule that tasks switch only at an await that     *)
(* suspends.                                                               *)
(***************************************************************************)
EXTENDS Integers, Sequences, FiniteSets, TLC

VARIABLES
    phase,              \* "down" | "running": the engine process
    now,                \* time.time(), whole seconds
    config,             \* settings.yaml as loaded: venue enable flags, tp_mode
    active_signals,     \* self.active_signals: insertion-ordered dict, <<[id, sig]>>
    trade_history,      \* self.trade_history
    recent_signals,     \* self._recent_signals: dedup key -> timestamp
    bybit_status,       \* self.bybit_status
    new_trades_enabled, \* self.new_trades_enabled: False while in standby
    db_signals,         \* table active_signals of config/trading_data.db
    db_history,         \* app_state['trade_history']
    mt5_positions,      \* the broker terminal's open positions
    next_ticket,        \* the broker's next order ticket
    mt5_market,         \* symbol -> [bid, spread]: the broker's quotes
    bybit_positions,    \* the exchange's open positions (one per symbol)
    trace,              \* what the last handler did (observation only)
    last_accepted,      \* observation: dedup key -> time the gate last accepted it
    opened,             \* observation: ticket -> volume the position was opened with
    partials,           \* observation: ticket -> confirmed TP1/TP2 partial-close sizes
    last_pass,          \* observation: the venue lists and the store at the last pass
    sched               \* the event loop: which task runs, and where each task stands

vars == <<phase, now, config, active_signals, trade_history, recent_signals,
          bybit_status, new_trades_enabled, db_signals, db_history, mt5_positions,
          next_ticket, mt5_market, bybit_positions, trace, last_accepted, opened,
          partials, last_pass, sched>>

engineVars == <<active_signals, trade_history, recent_signals, bybit_status>>
storeVars == <<db_signals, db_history>>
venueVars == <<mt5_positions, next_ticket, mt5_market, bybit_positions>>
ghostVars == <<last_accepted, opened, partials, last_pass>>

-----------------------------------------------------------------------------
(* Bounds of the model *)

\* the in-memory trade history never holds more records than this
MaxHistory == 3
\* the clock runs MaxTime seconds
MaxTime == 1
\* the broker issues tickets 1..MaxTickets
MaxTickets == 3

-----------------------------------------------------------------------------
(* Values *)

Symbols == {"EURUSD", "BTCUSDT"}
SymbolOrder == <<"BTCUSDT", "EURUSD">>

\* crypto_keywords of _check_spread: does the symbol contain one of them
HasCryptoKeyword(sym) == sym \in {"BTCUSDT"}
\* metals_keywords of _check_spread
HasMetalKeyword(sym) == FALSE

NoTicket == [kind |-> "none", num |-> 0, sym |-> "-"]
Mt5Ticket(n) == [kind |-> "mt5", num |-> n, sym |-> "-"]
BybitTicket(sym) == [kind |-> "bybit", num |-> 0, sym |-> sym]

\* Python truthiness of sig.get('ticket')
Truthy(ticket) == ticket.kind # "none"

TradeId(sym, t) == [kind |-> "trade", sym |-> sym, n |-> t]
RestoredMt5Id(n) == [kind |-> "RETORED", sym |-> "-", n |-> n]
RestoredBybitId(sym, t) == [kind |-> "RESTORED_BYBIT", sym |-> sym, n |-> t]
LegacyId(n) == [kind |-> "legacy", sym |-> "-", n |-> n]

HistoryRecord(sym, target, status, success) ==
    [symbol |-> sym, target |-> target, status |-> status, success |-> success]

-----------------------------------------------------------------------------
(* Python dict with insertion order, as a sequence of [id, sig] *)

Ids(d) == {d[i].id : i \in 1..Len(d)}

DictHas(d, id) == \E i \in 1..Len(d) : d[i].id = id

DictGet(d, id) == d[CHOOSE i \in 1..Len(d) : d[i].id = id].sig

\* d[id] = sig: an existing key keeps its place
DictSet(d, id, sig) ==
    IF DictHas(d, id)
    THEN [i \in 1..Len(d) |-> IF d[i].id = id THEN [id |-> id, sig |-> sig] ELSE d[i]]
    ELSE Append(d, [id |-> id, sig |-> sig])

\* for rid in ids: del d[rid]
DictDel(d, ids) == SelectSeq(d, LAMBDA e : e.id \notin ids)

\* next((k for k, v in d.items() if <cond>), None), given the indexes where
\* <cond> holds: index of the first match, 0 for None
First(d, matching) ==
    IF matching = {}
    THEN 0
    ELSE CHOOSE i \in matching : \A j \in matching : i <= j

-----------------------------------------------------------------------------
(* Persistence *)

\* self.trade_history[-50:]
HISTORY_TAIL == 50

Tail50(h) == IF Len(h) <= HISTORY_TAIL THEN h ELSE SubSeq(h, Len(h) - HISTORY_TAIL + 1, Len(h))

\* _save_state: DELETE FROM active_signals, INSERT every tracked signal, REPLACE the
\* history tail, one commit
SavedSignals(as) == as
SavedHistory(th) == Tail50(th)

-----------------------------------------------------------------------------
(* The venues' position lists *)

Mt5Tickets(ps) == {p.ticket : p \in ps}

\* mt5.positions_get(...): a tuple ordered by ticket
RECURSIVE ByTicket(_)
ByTicket(ps) ==
    IF ps = {} THEN <<>>
    ELSE LET p == CHOOSE q \in ps : \A r \in ps : q.ticket <= r.ticket
         IN <<p>> \o ByTicket(ps \ {p})

\* get_positions(category="linear", settleCoin="USDT")['result']['list'] with size > 0
BybitList(bps) == SelectSeq(SymbolOrder, LAMBDA s : \E p \in bps : p.symbol = s /\ p.size > 0)

BybitPos(bps, sym) == CHOOSE p \in bps : p.symbol = sym

-----------------------------------------------------------------------------
(* _reconcile_positions *)

\* the tracked signal synthesised for an orphan MT5 position
RestoredMt5Signal(p) ==
    [symbol |-> p.symbol, side |-> p.type, entry |-> p.price_open, sl |-> p.sl,
     tps |-> IF p.tp > 0 THEN <<p.tp>> ELSE <<>>,
     ticket |-> Mt5Ticket(p.ticket), restored |-> TRUE, type |-> "none",
     progressive |-> FALSE, tp1_closed |-> FALSE, tp2_closed |-> FALSE,
     original_volume |-> 0]

\* the tracked signal synthesised for an orphan Bybit position
RestoredBybitSignal(p) ==
    [symbol |-> p.symbol, side |-> p.side, entry |-> p.avgPrice,
     sl |-> IF p.stopLoss > 0 THEN p.stopLoss ELSE 0,
     tps |-> IF p.takeProfit > 0 THEN <<p.takeProfit>> ELSE <<>>,
     ticket |-> BybitTicket(p.symbol), restored |-> TRUE, type |-> "crypto",
     progressive |-> FALSE, tp1_closed |-> FALSE, tp2_closed |-> FALSE,
     original_volume |-> 0]

\* str(sig.get('ticket')) == str(p.ticket) or str(sig.get('id')) == str(p.ticket);
\* no tracked signal carries an 'id' key, so the second disjunct compares 'None'
MatchesMt5Ticket(sig, n) == sig.ticket.kind = "mt5" /\ sig.ticket.num = n

\* lines 224-254: link every MT5 position that no tracked signal carries
RECURSIVE AdoptMt5Orphans(_, _, _)
AdoptMt5Orphans(st, ps, i) ==
    IF i > Len(ps) THEN st
    ELSE LET p == ps[i]
             found == \E k \in 1..Len(st.as) : MatchesMt5Ticket(st.as[k].sig, p.ticket)
         IN IF found THEN AdoptMt5Orphans(st, ps, i + 1)
            ELSE AdoptMt5Orphans(
                    [st EXCEPT !.as = DictSet(st.as, RestoredMt5Id(p.ticket),
                                              RestoredMt5Signal(p)),
                               !.th = Append(st.th, HistoryRecord(p.symbol, "RESTORED",
                                                                  "Ticket", TRUE)),
                               !.adopted = st.adopted \cup {Mt5Ticket(p.ticket)}],
                    ps, i + 1)

\* lines 259-261: ticket and str(ticket) not in active_tickets
StaleForMt5(sig, active) ==
    Truthy(sig.ticket) /\ ~(sig.ticket.kind = "mt5" /\ sig.ticket.num \in active)

\* lines 256-266: drop the tracked signals whose ticket the terminal does not list
CleanupMt5(st, active) ==
    LET gone == {k \in 1..Len(st.as) : StaleForMt5(st.as[k].sig, active)}
    IN [st EXCEPT !.as = DictDel(st.as, {st.as[k].id : k \in gone}),
                  !.removed = st.removed \cup {st.as[k] : k \in gone}]

\* lines 216-266; got.res is "None" when positions_get returns None
ReconcileMT5(st, got) ==
    IF got.res = "None" THEN st
    ELSE CleanupMt5(AdoptMt5Orphans(st, ByTicket(got.list), 1), Mt5Tickets(got.list))

\* lines 278-311: link every Bybit position whose symbol no tracked signal carries
\* (sig.get('ticket') != 'closed' holds of every ticket the engine writes)
RECURSIVE AdoptBybitOrphans(_, _, _, _, _)
AdoptBybitOrphans(st, bps, syms, i, t) ==
    IF i > Len(syms) THEN st
    ELSE LET p == BybitPos(bps, syms[i])
             found == \E k \in 1..Len(st.as) : st.as[k].sig.symbol = p.symbol
         IN IF found THEN AdoptBybitOrphans(st, bps, syms, i + 1, t)
            ELSE AdoptBybitOrphans(
                    [st EXCEPT !.as = DictSet(st.as, RestoredBybitId(p.symbol, t),
                                              RestoredBybitSignal(p)),
                               !.th = Append(st.th, HistoryRecord(p.symbol, "RESTORED",
                                                                  "Bybit", TRUE)),
                               !.adopted = st.adopted \cup {BybitTicket(p.symbol)}],
                    bps, syms, i + 1, t)

\* line 317: type == 'crypto' or the ticket starts with 'bybit_' or 'crypto_'
IsBybitSignal(sig) == sig.type = "crypto" \/ sig.ticket.kind = "bybit"

\* lines 313-323
CleanupBybit(st, activeSyms) ==
    LET gone == {k \in 1..Len(st.as) :
                    IsBybitSignal(st.as[k].sig) /\ st.as[k].sig.symbol \notin activeSyms}
    IN [st EXCEPT !.as = DictDel(st.as, {st.as[k].id : k \in gone}),
                  !.removed = st.removed \cup {st.as[k] : k \in gone}]

\* lines 269-326; got.res is "raise" when get_positions raises (the except clause
\* logs and leaves the state as it is)
ReconcileBybit(st, got, t) ==
    IF got.res = "raise" THEN st
    ELSE LET syms == BybitList(got.list)
         IN CleanupBybit(AdoptBybitOrphans(st, got.list, syms, 1, t),
                         {syms[i] : i \in 1..Len(syms)})

\* _reconcile_positions up to _save_state; got.res is "off" for a venue that is not
\* enabled
ReconcilePositions(as, th, mt5Got, bybitGot, t) ==
    LET st0 == [as |-> as, th |-> th, adopted |-> {}, removed |-> {}]
        st1 == IF mt5Got.res = "off" THEN st0 ELSE ReconcileMT5(st0, mt5Got)
    IN IF bybitGot.res = "off" THEN st1 ELSE ReconcileBybit(st1, bybitGot, t)

\* what the venue calls of a reconciliation pass can return
Mt5Fetches(cfg, ps) ==
    IF cfg.mt5_enabled THEN {[res |-> "ok", list |-> ps], [res |-> "None", list |-> {}]}
    ELSE {[res |-> "off", list |-> {}]}

BybitFetches(cfg, bps) ==
    IF cfg.bybit_enabled THEN {[res |-> "ok", list |-> bps], [res |-> "raise", list |-> {}]}
    ELSE {[res |-> "off", list |-> {}]}

-----------------------------------------------------------------------------
(* Arithmetic *)

Abs(x) == IF x < 0 THEN -x ELSE x
Max(a, b) == IF a >= b THEN a ELSE b
Min(a, b) == IF a <= b THEN a ELSE b
FloorDiv(a, b) == a \div b
CeilDiv(a, b) == -((-a) \div b)

\* round(a / b) to the nearest integer, ties to the even one (Python's round on an
\* exactly representable value)
RoundDiv(a, b) ==
    LET q == a \div b
        r == a - q * b
    IN IF 2 * r < b THEN q
       ELSE IF 2 * r > b THEN q + 1
       ELSE IF q % 2 = 0 THEN q ELSE q + 1

\* round(x, info.digits): x to the nearest multiple of the point
RoundToDigits(x, info) == RoundDiv(x, info.point) * info.point

-----------------------------------------------------------------------------
(* Settings (config['trading']) and the venues' instrument data *)

\* config['trading'].get('be_buffer', 5.0), in points
be_buffer == 5
\* config['trading'].get('trailing_distance', 15.0), in points
trailing_distance == 15
\* config['trading'].get('max_spread_forex', 5)
max_spread_forex == 5
\* config['trading'].get('max_spread_gold', 800)
max_spread_gold == 800
\* config['trading'].get('default_risk_percent', 1.0)
default_risk_percent == 1
\* the dedup window of on_message_received, seconds
DEDUP_WINDOW == 10
\* the age after which a dedup entry is purged, seconds
DEDUP_PURGE == 60

\* mt5.symbol_info(sym): every symbol of the model is listed with full trade mode;
\* volumes in units of volume_step, trade_stops_level in points
Mt5Info(sym) ==
    [point |-> 2, trade_stops_level |-> 5, volume_min |-> 1, volume_max |-> 5000,
     trade_tick_size |-> 2, trade_tick_value |-> 1]

\* get_instruments_info(...)['result']['list']: the exchange lists BTCUSDT only;
\* quantities in units of qtyStep = 1 / steps_per_unit
BybitListed(sym) == sym = "BTCUSDT"
BybitRules(sym) == [steps_per_unit |-> 1000, minOrderQty |-> 1, minNotionalValue |-> 5]

\* tick.ask: the bid plus the spread (info.spread, in points)
Ask(sym, q) == q.bid + q.spread * Mt5Info(sym).point

-----------------------------------------------------------------------------
(* risk_manager.py *)

\* calculate_mt5_lot, in units of volume_step (0.01 lot):
\* lot = risk_amount / (points_at_risk / tick_size * tick_value), floored to the
\* step, clamped into [volume_min, volume_max]
calculate_mt5_lot(info, entry, sl, balance) ==
    LET points_at_risk == Abs(entry - sl)
    IN IF points_at_risk = 0 \/ info.trade_tick_size = 0 THEN 0
       ELSE LET lot == FloorDiv(balance * default_risk_percent * info.trade_tick_size,
                                points_at_risk * info.trade_tick_value)
            IN Max(info.volume_min, Min(info.volume_max, lot))

calculate_bybit_qty_m(rules, entry, sl, balance) ==
    LET dist == Abs(entry - sl)
        k == rules.steps_per_unit
        qty == FloorDiv(balance * default_risk_percent * k, 100 * dist)
        true_min_qty == Max(rules.minOrderQty, CeilDiv(rules.minNotionalValue * k, entry))
    IN IF dist = 0 THEN 0
       ELSE IF qty < true_min_qty THEN true_min_qty
       ELSE qty

\* calculate_bybit_qty, in units of qtyStep
calculate_bybit_qty(rules, entry, sl, balance) ==
    LET dist == Abs(entry - sl)
        k == rules.steps_per_unit
        qty == FloorDiv(balance * default_risk_percent * k, 100 * dist)
        true_min_qty == Max(rules.minOrderQty, CeilDiv(rules.minNotionalValue * k, entry))
    IN IF dist = 0 THEN 0
       ELSE IF qty < true_min_qty THEN CeilDiv(true_min_qty * 1015, 1000)
       ELSE qty

-----------------------------------------------------------------------------
(* The state a handler works on, threaded through its statements *)

Start ==
    [as |-> active_signals, th |-> trade_history, dbs |-> db_signals,
     dbh |-> db_history, mt5 |-> mt5_positions, nt |-> next_ticket,
     byb |-> bybit_positions, opened |-> opened, partials |-> partials,
     orders |-> <<>>, sl_reqs |-> <<>>, closes |-> <<>>, raised |-> FALSE,
     resolved |-> "na"]

\* _save_state
Save(st) == [st EXCEPT !.dbs = SavedSignals(st.as), !.dbh = SavedHistory(st.th)]

\* self.trade_history.append(...)
Log(st, rec) == [st EXCEPT !.th = Append(st.th, rec)]

\* an exception leaves the handler
Raise(st) == [st EXCEPT !.raised = TRUE]

-----------------------------------------------------------------------------
(* Parsed alerts: what SignalParser.parse_message hands to the engine *)

\* the prices the alerts of the model quote, in price units
Quoted ==
    [entry |-> 200, buy_sl |-> 160, sell_sl |-> 240,
     buy_tps |-> <<220, 240, 260>>, sell_tps |-> <<180, 160, 140>>]

NewTrade(sym, side, type, ntps) ==
    [symbol |-> sym, side |-> side, entry |-> Quoted.entry,
     sl |-> IF side = "BUY" THEN Quoted.buy_sl ELSE Quoted.sell_sl,
     tps |-> SubSeq(IF side = "BUY" THEN Quoted.buy_tps ELSE Quoted.sell_tps, 1, ntps),
     action |-> "none", action_val |-> 0, type |-> type]

\* an update alert: the parser needs a side keyword and, to return at all, a
\* take-profit price in the text (line 101 reads tps[0])
Update(sym, side, type, action, val) ==
    [NewTrade(sym, side, type, 1) EXCEPT !.action = action, !.action_val = val]

\* the dict _log_trade stores under active_signals
Tracked(signal) ==
    [symbol |-> signal.symbol, side |-> signal.side, entry |-> signal.entry,
     sl |-> signal.sl, tps |-> signal.tps, ticket |-> NoTicket, restored |-> FALSE,
     type |-> signal.type, progressive |-> FALSE, tp1_closed |-> FALSE,
     tp2_closed |-> FALSE, original_volume |-> 0]

TargetLabel(signal) == IF Len(signal.tps) > 0 THEN "TP1" ELSE "--"

-----------------------------------------------------------------------------
(* _execute_mt5_trade *)

\* config['trading'].get('tp_split', [33, 33, 34])
tp_split == config.tp_split

\* lines 1013-1042: the orders to place, <<[lot, tp, label]>>
OrdersToPlace(signal, cfg, total_lot, info) ==
    LET tps == signal.tps
        Order(lot, tp, label) == [tp |-> tp, lot |-> lot, label |-> label]
    IN IF cfg.tp_mode = "split"
       THEN LET lot1 == Max(info.volume_min, RoundDiv(total_lot * tp_split[1], 100))
                lot2 == Max(info.volume_min, RoundDiv(total_lot * tp_split[2], 100))
                lot3 == total_lot - (lot1 + lot2)
                lots == IF lot3 <= 0 \/ 10 * (lot1 + lot2 + lot3) > 11 * total_lot
                        THEN <<total_lot, 0, 0>>
                        ELSE <<lot1, lot2, lot3>>
                idx == SelectSeq(<<1, 2, 3>>, LAMBDA i : i <= Len(tps) /\ lots[i] > 0)
            IN [j \in 1..Len(idx) |-> Order(lots[idx[j]], tps[idx[j]], "Split")]
       ELSE IF cfg.tp_mode = "scalper" /\ Len(tps) > 0
       THEN <<Order(total_lot, tps[1], "Scalper")>>
       ELSE IF cfg.tp_mode = "progressive" /\ Len(tps) > 0
       THEN <<Order(total_lot, tps[Min(2, Len(tps) - 1) + 1], "Progressive")>>
       ELSE LET want == IF cfg.final_target = "tp2" THEN 1 ELSE 2
                final_tp_idx == IF Len(tps) <= want THEN Len(tps) - 1 ELSE want
            IN IF final_tp_idx >= 0 /\ final_tp_idx < Len(tps)
               THEN <<Order(total_lot, tps[final_tp_idx + 1], "Hybrid")>>
               ELSE <<>>

\* the position the terminal opens for a filled market order
Mt5Position(ticket, symbol, side, price, sl, tp, lot) ==
    [ticket |-> ticket, symbol |-> symbol, type |-> side, price_open |-> price,
     sl |-> sl, tp |-> tp, volume |-> lot, magic |-> "engine"]

\* _log_trade; self.active_signals[signal_id] = signal stores the one dict object the
\* handler keeps mutating, under the id f"{symbol}_{int(time.time())}"
LogTrade(st, done, ticket, symbol, sig, t) ==
    LET sig2 == IF done THEN [sig EXCEPT !.ticket = Mt5Ticket(ticket)] ELSE sig
        st1 == IF done THEN [st EXCEPT !.as = DictSet(st.as, TradeId(symbol, t), sig2)]
               ELSE st
        rec == HistoryRecord(symbol, TargetLabel(sig),
                             IF done THEN "Filled" ELSE "Failed", done)
    IN [st |-> Save(Log(st1, rec)), sig |-> sig2]

\* lines 1045-1068: send every planned order; outcomes[i] is what order_send returns
\* for the i-th one
RECURSIVE PlaceMt5Orders(_, _, _, _, _, _, _, _, _)
PlaceMt5Orders(st, sig, orders, i, outcomes, cfg, symbol, price, t) ==
    IF i > Len(orders) THEN st
    ELSE LET o == orders[i]
             \* the terminal refuses a volume below the symbol's minimum
             done == /\ o.lot >= Mt5Info(symbol).volume_min
                     /\ outcomes[((i - 1) % Len(outcomes)) + 1] = "done"
             ticket == st.nt
             st1 == IF done
                    THEN [st EXCEPT
                            !.mt5 = st.mt5 \cup {Mt5Position(ticket, symbol, sig.side, price,
                                                            sig.sl, o.tp, o.lot)},
                            !.nt = st.nt + 1,
                            !.opened = st.opened \cup {[ticket |-> ticket, volume |-> o.lot]}]
                    ELSE st
             st2 == [st1 EXCEPT !.orders = Append(st1.orders,
                        [venue |-> "mt5", symbol |-> symbol, done |-> done,
                         ticket |-> IF done THEN Mt5Ticket(ticket) ELSE NoTicket,
                         lot |-> o.lot, sl |-> sig.sl, tp |-> o.tp])]
             sig1 == IF cfg.tp_mode = "progressive" /\ done
                     THEN [sig EXCEPT !.progressive = TRUE, !.tp1_closed = FALSE,
                                      !.tp2_closed = FALSE, !.original_volume = o.lot]
                     ELSE sig
             logged == LogTrade(st2, done, ticket, symbol, sig1, t)
         IN PlaceMt5Orders(logged.st, logged.sig, orders, i + 1, outcomes, cfg, symbol,
                           price, t)

\* config['trading'].get('symbol_suffix', ''): the suffix the broker appends
symbol_suffix == "+"

\* raw_symbol + suffix
Suffixed(raw) == IF raw = "EURUSD" THEN "EURUSD+" ELSE "BTCUSDT+"

None == "None"

\* the trade modes symbol_info reports ("absent": symbol_info returns None)
TradeModes == {"absent", "full", "disabled", "closeonly"}

\* the broker's symbol table a handler run sees: env.symbols when the run is given
\* one, otherwise every symbol of the model listed with full trade mode
SymbolTable(env) ==
    IF "symbols" \in DOMAIN env THEN env.symbols
    ELSE [n \in Symbols \cup {Suffixed(sym) : sym \in Symbols} |->
             IF n \in Symbols THEN "full" ELSE "absent"]

\* is_tradeable (lines 933-940)
is_tradeable(table, sym) == sym \in DOMAIN table /\ table[sym] = "full"

ResolveMt5Symbol_m(table, raw_symbol) ==
    IF raw_symbol \in DOMAIN table /\ table[raw_symbol] # "absent" THEN raw_symbol
    ELSE IF symbol_suffix # "" /\ is_tradeable(table, Suffixed(raw_symbol))
    THEN Suffixed(raw_symbol)
    ELSE None

\* _resolve_mt5_symbol
ResolveMt5Symbol(table, raw_symbol) ==
    IF is_tradeable(table, raw_symbol) THEN raw_symbol
    ELSE IF symbol_suffix # "" /\ is_tradeable(table, Suffixed(raw_symbol))
    THEN Suffixed(raw_symbol)
    ELSE None

\* _execute_mt5_trade; env: tick (does symbol_info_tick answer within 5 tries),
\* balance (account_info().balance), outcomes (order_send's results)
ExecuteMt5Trade(st, signal, cfg, q, env, t) ==
    LET raw_symbol == signal.symbol
        \* symbol_info returns None when the terminal was not initialised
        symbol == IF cfg.mt5_enabled THEN ResolveMt5Symbol(SymbolTable(env), raw_symbol)
                  ELSE None
        info == Mt5Info(symbol)
        st0 == [st EXCEPT !.resolved = symbol]
    IN IF symbol = None
       THEN Save(Log(st0, HistoryRecord(raw_symbol, "--", "Error", FALSE)))
       ELSE IF ~env.tick
       THEN Save(Log(st0, HistoryRecord(symbol, "--", "Error", FALSE)))
       ELSE IF signal.entry = 0 \/ signal.sl = 0 THEN Raise(st0)
       ELSE LET total_lot == calculate_mt5_lot(info, signal.entry, signal.sl, env.balance)
                orders == OrdersToPlace(signal, cfg, total_lot, info)
                price == IF signal.side = "BUY" THEN Ask(symbol, q) ELSE q.bid
            IN PlaceMt5Orders(st0, Tracked(signal), orders, 1, env.outcomes, cfg, symbol,
                              price, t)

-----------------------------------------------------------------------------
(* _execute_bybit *)

\* the exchange's position after a filled market order (one-way mode, positionIdx 0:
\* one position per symbol; an opposite order nets against it)
BybitFill(bps, sym, side, qty, entry, sl, tp) ==
    LET fresh == [symbol |-> sym, side |-> side, size |-> qty, avgPrice |-> entry,
                  stopLoss |-> sl, takeProfit |-> tp]
    IN IF ~\E p \in bps : p.symbol = sym THEN bps \cup {fresh}
       ELSE LET p == BybitPos(bps, sym)
                rest == bps \ {p}
            IN IF p.side = side
               THEN rest \cup {[p EXCEPT !.size = p.size + qty, !.stopLoss = sl,
                                         !.takeProfit = tp]}
               ELSE IF p.size > qty THEN rest \cup {[p EXCEPT !.size = p.size - qty]}
               ELSE IF p.size < qty THEN rest \cup {[fresh EXCEPT !.size = qty - p.size]}
               ELSE rest

BybitFailed(symbol, status) == HistoryRecord(symbol, "--", status, FALSE)

BybitBlocked_m(status) == status = "INITIALIZING"

\* line 1115: the guard on self.bybit_status
BybitBlocked(status) == status # "AUTHENTICATED"

\* _execute_bybit; env: balance (the wallet's equity), bybit (what place_order does)
ExecuteBybit(st, signal, cfg, status, env) ==
    LET symbol == signal.symbol
        side == IF signal.side = "BUY" THEN "BUY" ELSE "SELL"
    IN IF BybitBlocked(status) THEN Log(st, BybitFailed(symbol, "Bybit: status"))
       \* rules = instrument_resp['result']['list'][0] raises IndexError for a symbol
       \* the exchange does not list; abs(entry - sl) raises TypeError on None
       ELSE IF ~BybitListed(symbol) \/ signal.entry = 0 \/ signal.sl = 0
       THEN Log(st, BybitFailed(symbol, "Bybit: Error"))
       ELSE LET qty == calculate_bybit_qty(BybitRules(symbol), signal.entry, signal.sl,
                                           env.balance)
                tp == IF cfg.tp_mode # "progressive" /\ Len(signal.tps) > 0
                      THEN signal.tps[1] ELSE 0
                \* the exchange refuses a quantity of zero (pybit raises on the retCode)
                answer == IF qty = 0 /\ env.bybit = "ok" THEN "InvalidRequestError"
                          ELSE env.bybit
                sent == [venue |-> "bybit", symbol |-> symbol,
                         done |-> answer = "ok",
                         ticket |-> IF answer = "ok" THEN BybitTicket(symbol)
                                    ELSE NoTicket,
                         lot |-> qty, sl |-> signal.sl, tp |-> tp]
                st1 == [st EXCEPT !.orders = Append(st.orders, sent)]
            IN CASE answer = "ok" ->
                      Save(Log([st1 EXCEPT !.byb = BybitFill(st.byb, symbol, side, qty,
                                                             signal.entry, signal.sl, tp)],
                               HistoryRecord(symbol, TargetLabel(signal), "Bybit: qty",
                                             TRUE)))
                 [] answer = "retCode" ->
                      Save(Log(st1, BybitFailed(symbol, "Bybit: retCode")))
                 [] answer = "InvalidRequestError" ->
                      Save(Log(st1, BybitFailed(symbol, "Bybit: ret_code")))
                 [] answer = "FailedRequestError" -> st1
                 [] OTHER -> Log(st1, BybitFailed(symbol, "Bybit: Error"))

-----------------------------------------------------------------------------
(* _check_spread, execute_trade *)

\* _check_spread: "skipped" and "pass" return True, "fail" returns False
CheckSpread(signal, cfg, market) ==
    LET symbol == signal.symbol
        is_crypto == HasCryptoKeyword(symbol) \/ signal.type = "crypto"
        limit == IF HasMetalKeyword(symbol) THEN max_spread_gold ELSE max_spread_forex
    IN IF is_crypto THEN "skipped"
       \* a terminal that was not initialised answers None to symbol_info
       ELSE IF ~cfg.mt5_enabled THEN "fail"
       ELSE IF market[symbol].spread <= limit THEN "pass" ELSE "fail"

ExecuteTrade_m(st, signal, cfg, enabled, status, market, env, t) ==
    IF signal.type = "forex"
    THEN ExecuteMt5Trade(st, signal, cfg, market[signal.symbol], env, t)
    ELSE IF signal.type = "crypto"
    THEN ExecuteBybit(st, signal, cfg, status, env)
    ELSE st

\* execute_trade
ExecuteTrade(st, signal, cfg, enabled, status, market, env, t) ==
    IF ~enabled
    THEN Log(st, HistoryRecord(signal.symbol, "--", "Skipped (Standby)", FALSE))
    ELSE IF signal.type = "forex"
    THEN ExecuteMt5Trade(st, signal, cfg, market[signal.symbol], env, t)
    ELSE IF signal.type = "crypto"
    THEN ExecuteBybit(st, signal, cfg, status, env)
    ELSE st

-----------------------------------------------------------------------------
(* _modify_sl *)

\* what the venue answers to the k-th request of a handler run
Outcome(env, k) == env.outcomes[((k - 1) % Len(env.outcomes)) + 1]

Requests(st) == Len(st.orders) + Len(st.sl_reqs) + Len(st.closes)

\* the stop the terminal holds for a ticket right now (0: none, or no such position)
HeldStop(mt5, ticket) ==
    IF \E p \in mt5 : p.ticket = ticket
    THEN (CHOOSE p \in mt5 : p.ticket = ticket).sl
    ELSE 0

ClampToStopLevel_m(pos, new_sl, info, q) == new_sl

\* lines 656-666: keep the broker's minimum stop distance from the current price
ClampToStopLevel(pos, new_sl, info, q) ==
    LET stop_level_price == info.trade_stops_level * info.point
    IN IF pos.type = "BUY"
       THEN IF q.bid - new_sl < stop_level_price
            THEN q.bid - stop_level_price - info.point * 2
            ELSE new_sl
       ELSE IF new_sl - Ask(pos.symbol, q) < stop_level_price
            THEN Ask(pos.symbol, q) + stop_level_price + info.point * 2
            ELSE new_sl

\* lines 668-672: the final sanity check; TRUE when the new stop is not sent
MovesBackwards(pos, new_sl) ==
    IF pos.type = "BUY" THEN new_sl <= pos.sl
    ELSE pos.sl # 0 /\ new_sl >= pos.sl

\* _modify_sl; pos is the snapshot the caller read from positions_get
ModifySl(st, pos, wanted, info, q, env, src) ==
    LET new_sl == ClampToStopLevel(pos, wanted, info, q)
        sent == RoundToDigits(new_sl, info)
        done == Outcome(env, Requests(st) + 1) = "done"
        req == [venue |-> "mt5", ticket |-> Mt5Ticket(pos.ticket), side |-> pos.type,
                live |-> \E p \in st.mt5 : p.ticket = pos.ticket,
                held |-> HeldStop(st.mt5, pos.ticket), sl |-> sent, src |-> src,
                done |-> done]
    IN IF MovesBackwards(pos, new_sl) THEN st
       ELSE [st EXCEPT
               !.sl_reqs = Append(st.sl_reqs, req),
               !.mt5 = IF done
                       THEN {IF p.ticket = pos.ticket THEN [p EXCEPT !.sl = sent] ELSE p
                             : p \in st.mt5}
                       ELSE st.mt5]

-----------------------------------------------------------------------------
(* _manage_mt5_protection *)

\* config['trading'].get('be_enabled', True), .get('trailing_enabled', True)
be_enabled == TRUE
trailing_enabled == TRUE

\* the terminal after a deal that closes vol of a position
ClosePart(mt5, ticket, vol) ==
    {[p EXCEPT !.volume = IF p.ticket = ticket THEN p.volume - vol ELSE p.volume]
     : p \in {r \in mt5 : r.ticket # ticket \/ r.volume > vol}}

AddPartial(ps, ticket, which, vol) ==
    LET old == IF \E r \in ps : r.ticket = ticket
               THEN CHOOSE r \in ps : r.ticket = ticket
               ELSE [ticket |-> ticket, tp1 |-> 0, tp2 |-> 0]
        new == IF which = "tp1" THEN [old EXCEPT !.tp1 = old.tp1 + vol]
               ELSE [old EXCEPT !.tp2 = old.tp2 + vol]
    IN (ps \ {old}) \cup {new}

\* lines 544-548 / 590-594: price at or beyond a target, in the position's favour
Reached(pos, q, tp) ==
    IF pos.type = "BUY" THEN q.bid >= tp ELSE Ask(pos.symbol, q) <= tp

\* line 535: the first tracked signal with the position's symbol or its ticket
SignalDataIndex(as, pos) ==
    First(as, {i \in 1..Len(as) : \/ as[i].sig.symbol = pos.symbol
                                  \/ as[i].sig.ticket = Mt5Ticket(pos.ticket)})

PartialVolume_m(original_vol, split, min_vol, remaining) ==
    Max(min_vol, RoundDiv(original_vol * split, 100))

\* lines 561-562 / 601-602: the size of a partial close
PartialVolume(original_vol, split, min_vol, remaining) ==
    Min(Max(min_vol, RoundDiv(original_vol * split, 100)), remaining)

\* lines 560-585: the TP1 partial close of a progressive position
Tp1Partial(st, pos, k, info, env) ==
    LET sd == st.as[k].sig
        original_vol == IF sd.original_volume = 0 THEN pos.volume ELSE sd.original_volume
        close_vol == PartialVolume(original_vol, tp_split[1], info.volume_min, pos.volume)
        done == Outcome(env, Requests(st) + 1) = "done"
        st1 == [st EXCEPT !.closes = Append(st.closes,
                    [ticket |-> pos.ticket, volume |-> close_vol, which |-> "tp1",
                     done |-> done])]
    IN IF sd.tp1_closed THEN st
       ELSE IF done
       THEN Save([st1 EXCEPT !.as[k].sig.tp1_closed = TRUE,
                             !.mt5 = ClosePart(st.mt5, pos.ticket, close_vol),
                             !.partials = AddPartial(st.partials, pos.ticket, "tp1",
                                                     close_vol)])
       ELSE st1

\* lines 587-625: the TP2 partial close, on the volume the terminal reports now
Tp2Partial(st, pos, k, info, q, env) ==
    LET sd == st.as[k].sig
        original_vol == IF sd.original_volume = 0 THEN pos.volume ELSE sd.original_volume
        refreshed == {p \in st.mt5 : p.ticket = pos.ticket}
        current_vol == (CHOOSE p \in refreshed : TRUE).volume
        close_vol == PartialVolume(original_vol, tp_split[2], info.volume_min, current_vol)
        done == Outcome(env, Requests(st) + 1) = "done"
        st1 == [st EXCEPT !.closes = Append(st.closes,
                    [ticket |-> pos.ticket, volume |-> close_vol, which |-> "tp2",
                     done |-> done])]
    IN IF ~(Len(sd.tps) >= 2 /\ ~sd.tp2_closed) THEN st
       ELSE IF ~Reached(pos, q, sd.tps[2]) \/ refreshed = {} THEN st
       ELSE IF done
       THEN Save([st1 EXCEPT !.as[k].sig.tp2_closed = TRUE,
                             !.mt5 = ClosePart(st.mt5, pos.ticket, close_vol),
                             !.partials = AddPartial(st.partials, pos.ticket, "tp2",
                                                     close_vol)])
       ELSE st1

\* lines 627-632: breakeven
Breakeven(st, pos, info, q, env) ==
    LET is_buy == pos.type = "BUY"
        sl_needs_move == (is_buy /\ pos.sl < pos.price_open)
                         \/ (~is_buy /\ pos.sl > pos.price_open)
        new_sl == IF is_buy THEN pos.price_open + be_buffer * info.point
                  ELSE pos.price_open - be_buffer * info.point
    IN IF be_enabled /\ sl_needs_move THEN ModifySl(st, pos, new_sl, info, q, env, "be")
       ELSE st

\* lines 634-648: trailing stop; threshold * 1.5 compared exactly
Trailing(st, pos, info, q, env) ==
    LET threshold == trailing_distance * info.point
        current_price == IF pos.type = "BUY" THEN q.bid ELSE Ask(pos.symbol, q)
    IN IF ~trailing_enabled THEN st
       ELSE IF pos.type = "BUY"
       THEN IF 2 * (current_price - pos.sl) > 3 * threshold
               /\ current_price - threshold > pos.sl
            THEN ModifySl(st, pos, current_price - threshold, info, q, env, "trail")
            ELSE st
       ELSE IF (pos.sl = 0 \/ 2 * (pos.sl - current_price) > 3 * threshold)
               /\ (pos.sl = 0 \/ current_price + threshold < pos.sl)
            THEN ModifySl(st, pos, current_price + threshold, info, q, env, "trail")
            ELSE st

OwnMagic_m(pos) == TRUE

\* if pos.magic != magic: continue (511); if pos.magic == self.config['mt5']['magic'] (769)
OwnMagic(pos) == pos.magic = "engine"

\* lines 510-648: one position of the pass
ProtectPosition(st, pos, market, env) ==
    LET info == Mt5Info(pos.symbol)
        q == market[pos.symbol]
        k == SignalDataIndex(st.as, pos)
    IN IF ~OwnMagic(pos) \/ k = 0 THEN st
       \* tp1 = signal_data['tps'][0] raises IndexError on an empty list
       ELSE IF Len(st.as[k].sig.tps) = 0 THEN Raise(st)
       ELSE IF ~Reached(pos, q, st.as[k].sig.tps[1]) THEN st
       ELSE LET st1 == IF st.as[k].sig.progressive
                       THEN Tp2Partial(Tp1Partial(st, pos, k, info, env), pos, k, info, q,
                                       env)
                       ELSE st
            IN Trailing(Breakeven(st1, pos, info, q, env), pos, info, q, env)

\* for pos in positions; an exception ends the pass (the monitor loop catches it).
\* The state after a position is bound as an element of a singleton set, so that it
\* is computed once before the loop goes on
RECURSIVE ProtectAll(_, _, _, _, _)
ProtectAll(st, positions, i, market, env) ==
    IF i > Len(positions) \/ st.raised THEN st
    ELSE CHOOSE done \in {ProtectAll(next, positions, i + 1, market, env)
                             : next \in {ProtectPosition(st, positions[i], market, env)}}
            : TRUE

\* _manage_mt5_protection
ManageMt5Protection(st, market, env) == ProtectAll(st, ByTicket(st.mt5), 1, market, env)

-----------------------------------------------------------------------------
(* handle_signal_update *)

\* _close_mt5_position
CloseMt5Position(st, pos, env) ==
    LET done == Outcome(env, Requests(st) + 1) = "done"
        st1 == [st EXCEPT !.closes = Append(st.closes,
                    [ticket |-> pos.ticket, volume |-> pos.volume, which |-> "close",
                     done |-> done])]
        rid == First(st.as, {i \in 1..Len(st.as) : st.as[i].sig.ticket = Mt5Ticket(pos.ticket)})
    IN IF ~done THEN st1
       ELSE LET st2 == [st1 EXCEPT !.mt5 = {p \in st.mt5 : p.ticket # pos.ticket}]
            IN IF rid = 0 THEN st2
               ELSE Save([st2 EXCEPT !.as = DictDel(st.as, {st.as[rid].id})])

\* lines 768-779: every engine position of the symbol
RECURSIVE UpdateMt5Positions(_, _, _, _, _, _)
UpdateMt5Positions(st, positions, i, signal, market, env) ==
    IF i > Len(positions) THEN st
    ELSE LET pos == positions[i]
             next == IF ~OwnMagic(pos) THEN st
                     ELSE IF signal.action = "MOVE_SL"
                     THEN ModifySl(st, pos, signal.action_val, Mt5Info(pos.symbol),
                                   market[pos.symbol], env, "move")
                     ELSE IF signal.action = "CLOSE" THEN CloseMt5Position(st, pos, env)
                     ELSE st
         IN UpdateMt5Positions(next, positions, i + 1, signal, market, env)

\* lines 784-831: the exchange side of an update
UpdateBybit(st, signal, env) ==
    LET sym == signal.symbol
        has == \E p \in st.byb : p.symbol = sym /\ p.size > 0
        p == BybitPos(st.byb, sym)
        \* set_trading_stop / place_order raise when the exchange holds no position
        done == has /\ Outcome(env, Requests(st) + 1) = "done"
        rid == First(st.as, {i \in 1..Len(st.as) : st.as[i].sig.symbol = sym})
    IN IF signal.action = "MOVE_SL"
       THEN LET req == [venue |-> "bybit", ticket |-> BybitTicket(sym),
                        side |-> IF has THEN p.side ELSE signal.side, live |-> has,
                        held |-> IF has THEN p.stopLoss ELSE 0,
                        sl |-> signal.action_val, src |-> "move", done |-> done]
                st1 == [st EXCEPT !.sl_reqs = Append(st.sl_reqs, req)]
            IN IF ~done THEN st1
               ELSE LET st2 == [st1 EXCEPT !.byb = (st.byb \ {p}) \cup
                                            {[p EXCEPT !.stopLoss = signal.action_val]}]
                    IN IF rid = 0 THEN st2
                       ELSE Save([st2 EXCEPT !.as[rid].sig.sl = signal.action_val])
       ELSE IF signal.action = "CLOSE" /\ has
       THEN LET st1 == [st EXCEPT !.closes = Append(st.closes,
                            [ticket |-> 0, volume |-> p.size, which |-> "bybit",
                             done |-> done])]
            IN IF ~done THEN st1
               ELSE LET st2 == [st1 EXCEPT !.byb = st.byb \ {p}]
                    IN IF rid = 0 THEN st2
                       ELSE Save([st2 EXCEPT !.as = DictDel(st.as, {st.as[rid].id})])
       ELSE st

\* handle_signal_update
HandleSignalUpdate(st, signal, cfg, market, env) ==
    LET st1 == IF cfg.mt5_enabled
               THEN UpdateMt5Positions(st, ByTicket({p \in st.mt5 : p.symbol = signal.symbol}),
                                       1, signal, market, env)
               ELSE st
    IN IF cfg.bybit_enabled THEN UpdateBybit(st1, signal, env) ELSE st1

-----------------------------------------------------------------------------
(* The engine's actions *)

\* the clock when the model starts: later than the epoch by more than any window
StartTime == 2 * DEDUP_PURGE

NoTrace ==
    [op |-> "none", key |-> <<>>, dedup |-> "na", spread |-> "na", orders |-> <<>>,
     sl_reqs |-> <<>>, closes |-> <<>>, adopted |-> {}, removed |-> {},
     mt5_fetch |-> "off", bybit_fetch |-> "off", raised |-> FALSE,
     since |-> -1, dup |-> FALSE, signal |-> <<>>, logged |-> <<>>, probe |-> "na",
     call |-> <<>>, resolved |-> "na"]

\* the records a handler appended to self.trade_history
Logged(st) == SubSeq(st.th, Len(trade_history) + 1, Len(st.th))

TraceOf(op, st) ==
    [NoTrace EXCEPT !.op = op, !.orders = st.orders, !.sl_reqs = st.sl_reqs,
                    !.closes = st.closes, !.raised = st.raised, !.logged = Logged(st),
                    !.resolved = st.resolved]

\* the handler's result becomes the state; the bounds of the model are checked here
CommitUpTo(st, limit) ==
    /\ Len(st.th) <= limit
    /\ st.nt <= MaxTickets + 1
    /\ active_signals' = st.as
    /\ trade_history' = st.th
    /\ db_signals' = st.dbs
    /\ db_history' = st.dbh
    /\ mt5_positions' = st.mt5
    /\ next_ticket' = st.nt
    /\ bybit_positions' = st.byb
    /\ opened' = st.opened
    /\ partials' = st.partials

Commit(st) == CommitUpTo(st, MaxHistory)

\* the live lists a pass fetched, for comparison with the next pass
LiveLists(mt5, bps) ==
    [mt5 |-> {p.ticket : p \in {r \in mt5 : r.magic = "engine"}},
     bybit |-> {p.symbol : p \in {r \in bps : r.size > 0}}]

\* the event loop at rest: no task holds it, the alert task has no handler in
\* flight, the protection task sleeps between two passes
Idle ==
    [running |-> "none", alert |-> [stage |-> "idle", signal |-> <<>>, tries |-> 0],
     protect |-> <<>>]

NoPass == [done |-> FALSE, fetched |-> FALSE, lists |-> LiveLists({}, {}),
           signals |-> <<>>, history |-> <<>>]

\* a tracked signal of an older store that has no venue ticket yet
PendingSignal(sym, type) ==
    [Tracked(NewTrade(sym, "BUY", type, 1)) EXCEPT !.ticket = NoTicket]

\* the stores the first start can find: none, or one migrated from logs/state.json
LegacyStores ==
    {<<>>,
     <<[id |-> LegacyId(1), sig |-> PendingSignal("EURUSD", "forex")]>>,
     <<[id |-> LegacyId(1), sig |-> PendingSignal("BTCUSDT", "crypto")]>>}

Modes == {"hybrid", "split", "scalper", "progressive"}

\* the split table: the default, and one that /settings/update stores for
\* tp_split_1 = tp_split_2 = 70 (run.py line 186 computes the third share)
DefaultSplit == <<33, 33, 34>>
SplitTables == {DefaultSplit, <<70, 70, 100 - (70 + 70)>>}

Configs == [mt5_enabled : BOOLEAN, bybit_enabled : BOOLEAN, tp_mode : Modes,
            final_target : {"tp3"}, tp_split : SplitTables]

Quotes == [bid : {200}, spread : {2, 8}]

InitWith(cfgs, stores) ==
    /\ phase = "down"
    /\ now = StartTime
    /\ config \in cfgs
    /\ active_signals = <<>>
    /\ trade_history = <<>>
    /\ recent_signals = <<>>
    /\ bybit_status = "INITIALIZING"
    /\ new_trades_enabled = TRUE
    /\ db_signals \in stores
    /\ db_history = <<>>
    /\ mt5_positions = {}
    /\ next_ticket = 1
    /\ mt5_market = [s \in Symbols |-> [bid |-> 200, spread |-> 2]]
    /\ bybit_positions = {}
    /\ trace = NoTrace
    /\ last_accepted = <<>>
    /\ opened = {}
    /\ partials = {}
    /\ last_pass = NoPass
    /\ sched = Idle

\* start(): _validate_bybit_auth, _load_state, _reconcile_positions, _save_state
BootUpTo(auth, mt5Got, bybitGot, limit) ==
    /\ phase = "down"
    /\ LET loaded == [Start EXCEPT !.as = db_signals, !.th = db_history]
           r == ReconcilePositions(loaded.as, loaded.th, mt5Got, bybitGot, now)
           st == Save([loaded EXCEPT !.as = r.as, !.th = r.th])
       IN /\ CommitUpTo(st, limit)
          /\ trace' = [NoTrace EXCEPT !.op = "boot", !.adopted = r.adopted,
                                      !.removed = r.removed, !.mt5_fetch = mt5Got.res,
                                      !.bybit_fetch = bybitGot.res]
    /\ phase' = "running"
    /\ bybit_status' = IF config.bybit_enabled THEN auth ELSE "INITIALIZING"
    /\ recent_signals' = <<>>
    /\ last_pass' = [done |-> TRUE,
                     fetched |-> mt5Got.res # "None" /\ bybitGot.res # "raise",
                     lists |-> LiveLists(mt5_positions, bybit_positions),
                     signals |-> db_signals', history |-> db_history']
    /\ UNCHANGED <<now, config, new_trades_enabled, mt5_market, last_accepted, sched>>

Boot(auth, mt5Got, bybitGot) == BootUpTo(auth, mt5Got, bybitGot, MaxHistory)

\* a start; auths: what _validate_bybit_auth can find
BootStepUpTo(auths, limit) ==
    \E auth \in auths :
        \E mt5Got \in Mt5Fetches(config, {p \in mt5_positions : p.magic = "engine"}) :
            \E bybitGot \in BybitFetches(config, bybit_positions) :
                BootUpTo(auth, mt5Got, bybitGot, limit)

BootStep(auths) == BootStepUpTo(auths, MaxHistory)

\* the process ends; __init__ of the next one starts from empty maps
Stop ==
    /\ phase = "running"
    /\ phase' = "down"
    /\ active_signals' = <<>>
    /\ trade_history' = <<>>
    /\ recent_signals' = <<>>
    /\ bybit_status' = "INITIALIZING"
    /\ new_trades_enabled' = TRUE
    /\ trace' = [NoTrace EXCEPT !.op = "stop"]
    \* last_accepted observes the alerts the running process accepted
    /\ last_accepted' = <<>>
    /\ sched' = Idle
    /\ UNCHANGED <<now, config, storeVars, venueVars, opened,
                   partials, last_pass>>

Tick(d, limit) ==
    /\ now + d <= StartTime + limit
    /\ now' = now + d
    /\ trace' = [NoTrace EXCEPT !.op = "tick"]
    /\ UNCHANGED <<phase, config, new_trades_enabled, engineVars, storeVars, venueVars,
                   ghostVars, sched>>

\* self._recent_signals.get(dedup_key, 0)
LastSeen(recent, key) == IF key \in DOMAIN recent THEN recent[key] ELSE 0

IsDuplicate_m(recent, key, t) == t - LastSeen(recent, key) <= DEDUP_WINDOW

\* line 727: now - last_seen < 10
IsDuplicate(recent, key, t) == t - LastSeen(recent, key) < DEDUP_WINDOW

\* lines 731-735: record the key, then drop the entries older than the purge age
Remember(recent, key, t) ==
    LET put == [k \in DOMAIN recent \cup {key} |-> IF k = key THEN t ELSE recent[k]]
        keep == {k \in DOMAIN put : put[k] > t - DEDUP_PURGE}
    IN [k \in keep |-> put[k]]

\* lines 737-752 / 852-862: an update, or the spread gate and the trade
Dispatch(st, signal, env) ==
    IF signal.action # "none"
    THEN HandleSignalUpdate(st, signal, config, mt5_market, env)
    ELSE IF CheckSpread(signal, config, mt5_market) = "fail"
    THEN st
    ELSE ExecuteTrade(st, signal, config, new_trades_enabled, bybit_status, mt5_market,
                      env, now)

SpreadSeen(signal) ==
    IF signal.action # "none" THEN "na" ELSE CheckSpread(signal, config, mt5_market)

\* seconds since the running process last accepted an alert of the key (-1: never)
SinceAccepted(key) ==
    IF key \in DOMAIN last_accepted THEN now - last_accepted[key].at ELSE -1

\* was a duplicate of the key rejected since then
DupSince(key) == key \in DOMAIN last_accepted /\ last_accepted[key].dup

ParserRaises_m(signal) == FALSE

\* signal_parser.py line 101: the log line reads tps[0], an IndexError for a text
\* with no take-profit price; the exception leaves the handler that called the parser
ParserRaises(signal) == Len(signal.tps) = 0

Listening_m == TRUE

\* lines 107-111: the NewMessage handler is registered and the client started
\* after _load_state and _reconcile_positions have returned (lines 95-96)
Listening == phase = "running"

\* line 116: the protection task is created after the client has started
Monitoring == phase = "running"

\* on_message_received for the text of a monitored channel; signal is what the
\* parser extracts from it
OnMessage(signal, env) ==
    /\ Listening
    /\ IF ParserRaises(signal)
       THEN /\ trace' = [NoTrace EXCEPT !.op = "parse", !.signal = signal,
                                        !.raised = TRUE]
            /\ UNCHANGED <<engineVars, storeVars, venueVars, ghostVars>>
       ELSE
       LET key == <<signal.symbol, signal.side>>
           seen == [NoTrace EXCEPT !.op = "alert", !.key = key, !.signal = signal,
                                   !.since = SinceAccepted(key), !.dup = DupSince(key)]
       IN IF IsDuplicate(recent_signals, key, now)
          THEN /\ trace' = [seen EXCEPT !.dedup = "rejected"]
               /\ last_accepted' =
                     IF key \in DOMAIN last_accepted
                     THEN [last_accepted EXCEPT ![key].dup = TRUE]
                     ELSE last_accepted
               /\ UNCHANGED <<engineVars, storeVars, venueVars, opened, partials,
                              last_pass>>
          ELSE LET st0 == Dispatch(Start, signal, env)
                   st == IF signal.action = "none"
                            /\ CheckSpread(signal, config, mt5_market) = "fail"
                         THEN Log(st0, HistoryRecord(signal.symbol, "--",
                                                     "Spread limit exceeded", FALSE))
                         ELSE st0
               IN /\ Commit(st)
                  /\ recent_signals' = Remember(recent_signals, key, now)
                  /\ last_accepted' =
                        [k \in DOMAIN last_accepted \cup {key} |->
                            IF k = key THEN [at |-> now, dup |-> FALSE]
                            ELSE last_accepted[k]]
                  /\ trace' = [seen EXCEPT !.orders = st.orders, !.sl_reqs = st.sl_reqs,
                                    !.closes = st.closes, !.raised = st.raised,
                                    !.logged = Logged(st), !.resolved = st.resolved,
                                    !.dedup = "accepted", !.spread = SpreadSeen(signal)]
                  /\ UNCHANGED <<bybit_status, last_pass>>
    /\ UNCHANGED <<phase, now, config, new_trades_enabled, mt5_market, sched>>

\* process_manual_signal for a text; signal is what the parser extracts from it
ManualSignalUpTo(signal, env, limit) ==
    /\ phase = "running"
    /\ IF ParserRaises(signal)
       THEN /\ trace' = [NoTrace EXCEPT !.op = "parse", !.signal = signal,
                                        !.raised = TRUE]
            /\ UNCHANGED <<active_signals, trade_history, storeVars, venueVars, opened,
                           partials>>
       ELSE LET st == Dispatch(Start, signal, env)
            IN /\ CommitUpTo(st, limit)
               /\ trace' = [TraceOf("manual", st) EXCEPT
                                 !.key = <<signal.symbol, signal.side>>,
                                 !.signal = signal, !.spread = SpreadSeen(signal)]
    /\ UNCHANGED <<phase, now, config, new_trades_enabled, recent_signals,
                   bybit_status, mt5_market, last_accepted, last_pass, sched>>

ManualSignal(signal, env) == ManualSignalUpTo(signal, env, MaxHistory)

\* one pass of _protection_monitor_loop
ProtectionPass(env) ==
    /\ Monitoring
    /\ config.mt5_enabled
    /\ mt5_positions # {}
    /\ \E st \in {ManageMt5Protection(Start, mt5_market, env)} :
          /\ Commit(st)
          /\ trace' = TraceOf("protect", st)
    /\ UNCHANGED <<phase, now, config, new_trades_enabled, recent_signals,
                   bybit_status, mt5_market, last_accepted, last_pass, sched>>

\* one round of _latency_monitor_loop (lines 467-491); answer: what
\* get_api_key_information does ("ok", or the exception it raises)
HealthProbe(answer) ==
    /\ phase = "running"
    /\ config.bybit_enabled
    /\ bybit_status' =
          \* lines 475-478: a probe that succeeds updates the latency figure only
          IF answer = "ok" THEN bybit_status
          ELSE IF bybit_status = "AUTHENTICATED" THEN "CONN LOST"
          ELSE IF answer = "API key is invalid" THEN "INVALID KEYS"
          ELSE bybit_status
    /\ trace' = [NoTrace EXCEPT !.op = "probe", !.probe = answer]
    /\ UNCHANGED <<phase, now, config, new_trades_enabled, active_signals,
                   trade_history, recent_signals, storeVars, venueVars, ghostVars, sched>>

-----------------------------------------------------------------------------
(* The venues' own moves *)

\* the broker's quote of a symbol changes
QuoteMove(sym, q) ==
    /\ mt5_market[sym] # q
    /\ mt5_market' = [mt5_market EXCEPT ![sym] = q]
    /\ trace' = [NoTrace EXCEPT !.op = "quote"]
    /\ UNCHANGED <<phase, now, config, new_trades_enabled, engineVars, storeVars,
                   mt5_positions, next_ticket, bybit_positions, ghostVars, sched>>

\* the terminal closes a position (stop or target hit, or closed by hand)
Mt5Closes(ticket) ==
    /\ \E p \in mt5_positions : p.ticket = ticket
    /\ mt5_positions' = {p \in mt5_positions : p.ticket # ticket}
    /\ trace' = [NoTrace EXCEPT !.op = "mt5closes"]
    /\ UNCHANGED <<phase, now, config, new_trades_enabled, engineVars, storeVars,
                   next_ticket, mt5_market, bybit_positions, ghostVars, sched>>

\* the exchange closes a position
BybitCloses(sym) ==
    /\ \E p \in bybit_positions : p.symbol = sym
    /\ bybit_positions' = {p \in bybit_positions : p.symbol # sym}
    /\ trace' = [NoTrace EXCEPT !.op = "bybitcloses"]
    /\ UNCHANGED <<phase, now, config, new_trades_enabled, engineVars, storeVars,
                   mt5_positions, next_ticket, mt5_market, ghostVars, sched>>

-----------------------------------------------------------------------------
(* SpecRecon: starts and restarts of the engine around trades and venue closes *)

ReconConfigs ==
    {c \in Configs : /\ c.mt5_enabled \/ c.bybit_enabled
                     /\ c.tp_mode = "split" /\ c.tp_split = DefaultSplit}

ReconAlerts == {NewTrade(sym, "BUY", type, 2) : sym \in Symbols, type \in {"forex", "crypto"}}

ReconEnvs == [tick : {TRUE}, balance : {2000}, outcomes : {<<"done">>}, bybit : {"ok"}]

InitRecon == InitWith(ReconConfigs, LegacyStores)

NextRecon ==
    \/ BootStep({"AUTHENTICATED"})
    \/ Stop
    \/ Tick(1, MaxTime)
    \/ \E a \in ReconAlerts : \E env \in ReconEnvs : OnMessage(a, env)
    \/ \E t \in 1..MaxTickets : Mt5Closes(t)
    \/ \E sym \in Symbols : BybitCloses(sym)

SpecRecon == InitRecon /\ [][NextRecon]_vars

-----------------------------------------------------------------------------
(* Reconciliation claims, checked under SpecRecon *)

BootDone == trace'.op = "boot"

Restored(h) == SelectSeq(h, LAMBDA r : r.target = "RESTORED")

\* a start that finds the store and the venue lists as the last pass left them
SecondPass ==
    /\ BootDone
    /\ last_pass.done /\ last_pass.fetched
    /\ last_pass.signals = db_signals /\ last_pass.history = db_history
    /\ last_pass.lists = LiveLists(mt5_positions, bybit_positions)
    /\ trace'.mt5_fetch \in {"ok", "off"} /\ trace'.bybit_fetch \in {"ok", "off"}

\* C2: once a pass has adopted the venues' untracked positions, a further pass
\* against unchanged venue lists (after a restart that reloads the store, with either
\* or both venues enabled) adds no tracked entry, removes none and appends no
\* RESTORED record
C2_AdoptedOnce ==
    [][SecondPass =>
          /\ Ids(active_signals') = Ids(db_signals)
          /\ trace'.adopted = {} /\ trace'.removed = {}
          /\ Restored(trade_history') = Restored(db_history)]_vars

\* the venue a tracked entry belongs to reports its ticket gone
GoneAtOwnVenue(sig, mt5Res, bybitRes) ==
    \/ /\ sig.ticket.kind = "mt5" /\ mt5Res = "ok"
       /\ sig.ticket.num \notin LiveLists(mt5_positions, bybit_positions).mt5
    \/ /\ sig.ticket.kind = "bybit" /\ bybitRes = "ok"
       /\ sig.ticket.sym \notin LiveLists(mt5_positions, bybit_positions).bybit

\* C8: a pass deletes a tracked entry if and only if its ticket is set and is no
\* longer in the live list of the venue the entry belongs to
C8_DeletesExactlyStale ==
    [][BootDone =>
          {e.id : e \in trace'.removed} =
              {db_signals[i].id : i \in {k \in 1..Len(db_signals) :
                    GoneAtOwnVenue(db_signals[k].sig, trace'.mt5_fetch,
                                   trace'.bybit_fetch)}}]_vars

\* C9: a tracked entry without a venue ticket is never deleted by a pass
C9_PendingKept ==
    [][BootDone =>
          \A i \in 1..Len(db_signals) :
              ~Truthy(db_signals[i].sig.ticket) => db_signals[i].id \in Ids(active_signals')]_vars

OfVenue(sig, venue) ==
    IF venue = "bybit" THEN sig.ticket.kind = "bybit" \/ sig.type = "crypto"
    ELSE sig.ticket.kind = "mt5"

\* C10: when one venue's list cannot be fetched, the other venue is still reconciled
\* (its untracked positions adopted, its stale entries dropped), the start goes on to
\* the running phase, and no tracked entry of the failing venue is adopted or deleted
C10_FailureIsolated ==
    [][BootDone =>
          /\ phase' = "running"
          /\ trace'.bybit_fetch = "raise" =>
                /\ \A e \in trace'.removed : ~OfVenue(e.sig, "bybit")
                /\ \A t \in trace'.adopted : t.kind # "bybit"
                /\ trace'.mt5_fetch = "ok" =>
                      \A n \in LiveLists(mt5_positions, bybit_positions).mt5 :
                          \E i \in 1..Len(active_signals') :
                              active_signals'[i].sig.ticket = Mt5Ticket(n)
          /\ trace'.mt5_fetch = "None" =>
                /\ \A e \in trace'.removed : ~OfVenue(e.sig, "mt5")
                /\ \A t \in trace'.adopted : t.kind # "mt5"
                /\ trace'.bybit_fetch = "ok" =>
                      \A sym \in LiveLists(mt5_positions, bybit_positions).bybit :
                          \E i \in 1..Len(active_signals') :
                              active_signals'[i].sig.symbol = sym]_vars

-----------------------------------------------------------------------------
(* SpecTimers: the running engine with its recurring tasks (the protection pass  *)
(* every second, the health probe every 300 s) around trades, venue closes and   *)
(* restarts. The loops of both tasks never end, hence the weak fairness.         *)

TimerConfigs ==
    {c \in Configs : /\ c.mt5_enabled /\ c.bybit_enabled
                     /\ c.tp_mode = "hybrid" /\ c.tp_split = DefaultSplit}

TimerAlerts == {NewTrade("EURUSD", "BUY", "forex", 1), NewTrade("BTCUSDT", "BUY", "crypto", 1)}

TimerEnvs == [tick : {TRUE}, balance : {2000}, outcomes : {<<"done">>}, bybit : {"ok"}]

\* what get_api_key_information does in a probe
ProbeAnswers == {"ok", "raise", "API key is invalid"}

InitTimers == InitWith(TimerConfigs, {<<>>})

NextTimers ==
    \/ BootStep({"AUTHENTICATED", "INVALID KEYS"})
    \/ Stop
    \/ \E a \in TimerAlerts : \E env \in TimerEnvs : OnMessage(a, env)
    \/ \E env \in TimerEnvs : ProtectionPass(env)
    \/ \E answer \in ProbeAnswers : HealthProbe(answer)
    \/ \E t \in 1..MaxTickets : Mt5Closes(t)
    \/ \E sym \in Symbols : BybitCloses(sym)

SpecTimers ==
    /\ InitTimers
    /\ [][NextTimers]_vars
    /\ WF_vars(\E env \in TimerEnvs : ProtectionPass(env))
    /\ WF_vars(\E answer \in ProbeAnswers : HealthProbe(answer))

\* C11: an alert is handled and a protection pass runs only in a process whose
\* start() has loaded the store and finished its reconciliation pass
C11_StartupFirst ==
    [][trace'.op \in {"alert", "parse", "protect"} =>
          /\ phase = "running"
          /\ last_pass.done]_vars

\* an alert handled, or a pass run, over a map that holds an entry the startup
\* reconciliation adopted
C11_Witness ==
    /\ trace.op \in {"alert", "protect"}
    /\ phase = "running"
    /\ \E i \in 1..Len(active_signals) : active_signals[i].sig.restored

TracksTicket(t) == \E i \in 1..Len(active_signals) : active_signals[i].sig.ticket = Mt5Ticket(t)

\* a tracked entry whose position the terminal no longer reports
Stale(t) == TracksTicket(t) /\ ~\E p \in mt5_positions : p.ticket = t

\* C12: reconciliation recurs while the engine runs: a tracked entry whose position
\* was closed at the venue is eventually removed, unless the engine goes down first
C12_StaleEventuallyRemoved ==
    \A t \in 1..MaxTickets :
        (phase = "running" /\ Stale(t)) ~> (~TracksTicket(t) \/ phase = "down")

\* C14: once a failed probe has degraded the status, a probe that succeeds sets it
\* back to AUTHENTICATED
C14_ProbeRestores ==
    [][(trace'.op = "probe" /\ trace'.probe = "ok" /\ bybit_status = "CONN LOST") =>
          bybit_status' = "AUTHENTICATED"]_vars

-----------------------------------------------------------------------------
(* Spec: alerts and injected signals turned into orders, in every strategy mode *)

OrderConfigs ==
    {c \in Configs : c.mt5_enabled /\ c.bybit_enabled /\ c.tp_split = DefaultSplit}

TradeAlerts ==
    {NewTrade(sym, "BUY", type, 3) : sym \in Symbols, type \in {"forex", "crypto"}}

Envs == [tick : {TRUE}, balance : {2000}, outcomes : {<<"done">>, <<"done", "fail">>},
         bybit : {"ok", "retCode"}]

Init == InitWith(OrderConfigs, {<<>>})

Next ==
    \/ BootStep({"AUTHENTICATED", "INVALID KEYS"})
    \/ \E a \in TradeAlerts : \E env \in Envs : OnMessage(a, env)
    \/ \E a \in TradeAlerts : \E env \in Envs : ManualSignal(a, env)
    \/ \E q \in Quotes : QuoteMove("EURUSD", q)

Spec == Init /\ [][Next]_vars

Placed == {i \in 1..Len(trace.orders) : trace.orders[i].done}

\* C4: every order a venue reports as placed (each order of split mode, on both
\* venues) has a tracked position carrying its ticket when the handler finishes, and
\* that tracked position is in the persisted store
C4_PlacedIsTracked ==
    \A i \in Placed :
        \E k \in 1..Len(active_signals) :
            /\ active_signals[k].sig.ticket = trace.orders[i].ticket
            /\ \E j \in 1..Len(db_signals) : db_signals[j] = active_signals[k]

\* C7: an order is sent only for a signal the dedup gate accepted and, when the order
\* goes to the broker terminal, only after the spread check was evaluated against the
\* terminal's spread and passed; on the message handler and on manual injection
C7_GatesBeforeOrders ==
    \A i \in 1..Len(trace.orders) :
        /\ trace.dedup = "accepted"
        /\ trace.orders[i].venue = "mt5" => trace.spread = "pass"

\* a handler run that took a new-trade signal past the gates to execute_trade
Dispatched ==
    /\ trace.op \in {"alert", "manual"}
    /\ trace.dedup # "rejected"
    /\ trace.signal.action = "none"
    /\ trace.spread # "fail"

C15_OneRecordPerAction ==
    trace.op \in {"alert", "manual"} => Len(trace.logged) = 1

\* C16: whenever a handler has returned, the store holds exactly the in-memory
\* tracked signals and the tail of the in-memory trade history
C16_StoreMatchesMemory ==
    phase = "running" =>
        /\ db_signals = SavedSignals(active_signals)
        /\ db_history = SavedHistory(trade_history)

-----------------------------------------------------------------------------
(* SpecPlan: complete and incomplete new-trade signals in every strategy mode *)

\* a text without a stop-loss price: the parser stores None
WithoutStop(signal) == [signal EXCEPT !.sl = 0]

\* a text whose stop-loss price is its entry price
StopAtEntry(signal) == [signal EXCEPT !.sl = signal.entry]

PlanAlerts ==
    LET full == {NewTrade("EURUSD", "BUY", "forex", 2), NewTrade("BTCUSDT", "BUY", "crypto", 2)}
    IN full \cup {WithoutStop(a) : a \in full} \cup {StopAtEntry(a) : a \in full}
            \cup {NewTrade("EURUSD", "BUY", "forex", 0), NewTrade("BTCUSDT", "BUY", "crypto", 0)}

InitPlan == InitWith(OrderConfigs, {<<>>})

NextPlan ==
    \/ BootStep({"AUTHENTICATED"})
    \/ \E a \in PlanAlerts : \E env \in TimerEnvs : OnMessage(a, env)
    \/ \E a \in PlanAlerts : \E env \in TimerEnvs : ManualSignal(a, env)

SpecPlan == InitPlan /\ [][NextPlan]_vars

\* C17: a new-trade signal without a stop-loss, or without any take-profit price,
\* leads to no order on either venue in any strategy mode
C17_NoOrderWithoutStopOrTarget ==
    (/\ trace.op \in {"alert", "manual", "parse"}
     /\ trace.signal.action = "none"
     /\ trace.signal.sl = 0 \/ Len(trace.signal.tps) = 0) =>
        trace.orders = <<>>

\* a signal without a stop-loss went through the gates, positions are open at both
\* venues from complete signals, and no order was sent for it
C17_Witness ==
    /\ Dispatched
    /\ trace.signal.sl = 0
    /\ trace.orders = <<>>
    /\ mt5_positions # {} /\ bybit_positions # {}

\* C18: a signal whose entry equals its stop-loss is sized 0 and aborted: no order is
\* sent in any mode and one failed record is appended
C18_ZeroSizeAborts ==
    (Dispatched /\ trace.signal.sl # 0 /\ trace.signal.sl = trace.signal.entry) =>
        /\ trace.orders = <<>>
        /\ Len(trace.logged) = 1
        /\ ~trace.logged[1].success

-----------------------------------------------------------------------------
(* SpecDedup: alerts of two keys arriving at every distance around the window *)

\* the clock of SpecDedup runs DedupHorizon seconds, in steps of 1 and 9
DedupHorizon == 15
DedupSteps == {1, DEDUP_WINDOW - 1}

DedupConfigs ==
    {c \in Configs : /\ c.mt5_enabled /\ ~c.bybit_enabled
                     /\ c.tp_mode = "hybrid" /\ c.tp_split = DefaultSplit}

DedupAlerts ==
    {NewTrade("EURUSD", side, "forex", 1) : side \in {"BUY", "SELL"}}
        \cup {Update("EURUSD", "BUY", "forex", "CLOSE", 0)}

DedupEnvs == [tick : {TRUE}, balance : {2000}, outcomes : {<<"done">>}, bybit : {"ok"}]

InitDedup == InitWith(DedupConfigs, {<<>>})

NextDedup ==
    \/ BootStep({"AUTHENTICATED"})
    \/ \E d \in DedupSteps : Tick(d, DedupHorizon)
    \/ \E a \in DedupAlerts : \E env \in DedupEnvs : OnMessage(a, env)

SpecDedup == InitDedup /\ [][NextDedup]_vars

\* C3: an alert whose (symbol, side) was accepted less than 10 seconds earlier is
\* rejected and causes no order and no update action; an alert of a key accepted 10
\* seconds or more earlier (or never) is accepted, however many duplicates were
\* rejected in between
C3_DedupWindow ==
    trace.op = "alert" =>
        IF trace.since >= 0 /\ trace.since < 10
        THEN /\ trace.dedup = "rejected"
             /\ trace.orders = <<>> /\ trace.closes = <<>> /\ trace.sl_reqs = <<>>
        ELSE trace.dedup = "accepted"

\* an alert accepted exactly 10 seconds after the last accepted one of its key, a
\* duplicate having been rejected in between, and acted upon
C3_Witness ==
    /\ trace.op = "alert" /\ trace.dedup = "accepted"
    /\ trace.since = 10 /\ trace.dup
    /\ trace.orders # <<>> \/ trace.closes # <<>>

-----------------------------------------------------------------------------
(* SpecProtect: progressive positions under the protection monitor *)

ProtectConfigs ==
    {c \in Configs : c.mt5_enabled /\ ~c.bybit_enabled /\ c.tp_mode = "progressive"}

ProtectAlerts == {NewTrade("EURUSD", side, "forex", 3) : side \in {"BUY", "SELL"}}

ProtectEnvs == [tick : {TRUE}, balance : {2000}, outcomes : {<<"done">>}, bybit : {"ok"}]

\* what order_send answers to the requests of a pass
PassEnvs == [tick : {TRUE}, balance : {2000}, outcomes : {<<"done">>, <<"fail">>},
             bybit : {"ok"}]

ProtectQuotes == [bid : {200, 220, 240}, spread : {2}]

InitProtect == InitWith(ProtectConfigs, {<<>>})

NextProtect ==
    \/ BootStep({"AUTHENTICATED"})
    \/ Tick(1, MaxTime)
    \/ \E a \in ProtectAlerts : \E env \in ProtectEnvs : OnMessage(a, env)
    \/ \E env \in PassEnvs : ProtectionPass(env)
    \/ \E q \in ProtectQuotes : QuoteMove("EURUSD", q)

SpecProtect == InitProtect /\ [][NextProtect]_vars

-----------------------------------------------------------------------------
(* SpecStops: stop modifications from the monitor and from MOVE_SL updates *)

StopConfigs ==
    {c \in Configs : /\ c.mt5_enabled /\ c.bybit_enabled
                     /\ c.tp_mode = "hybrid" /\ c.tp_split = DefaultSplit}

StopAlerts ==
    {NewTrade("EURUSD", "BUY", "forex", 3), NewTrade("BTCUSDT", "BUY", "crypto", 1)}

StopUpdates ==
    {Update("EURUSD", "BUY", "forex", "MOVE_SL", 210),
     Update("BTCUSDT", "BUY", "crypto", "MOVE_SL", 150)}

InitStops == InitWith(StopConfigs, {<<>>})

NextStops ==
    \/ BootStep({"AUTHENTICATED"})
    \/ \E a \in StopAlerts : \E env \in ProtectEnvs : OnMessage(a, env)
    \/ \E a \in StopUpdates : \E env \in ProtectEnvs : ManualSignal(a, env)
    \/ \E env \in PassEnvs : ProtectionPass(env)
    \/ \E q \in ProtectQuotes : QuoteMove("EURUSD", q)

SpecStops == InitStops /\ [][NextStops]_vars

MoreProtective(req) ==
    IF req.side = "BUY" THEN req.sl > req.held
    ELSE req.held = 0 \/ req.sl < req.held

\* C1: every stop modification sent to a venue for an open position (breakeven,
\* trailing or MOVE_SL; terminal or exchange; also the second request of one pass) asks
\* for a stop strictly more protective than the one the venue holds just before it
C1_StopOnlyTightens ==
    \A i \in 1..Len(trace.sl_reqs) :
        trace.sl_reqs[i].live => MoreProtective(trace.sl_reqs[i])

\* the tracked entries that carry the ticket of a terminal position
OwnEntries(as, p) == {k \in 1..Len(as) : as[k].sig.ticket = Mt5Ticket(p.ticket)}

Tp1NotReached(p, sig) ==
    /\ Len(sig.tps) > 0
    /\ IF p.type = "BUY" THEN mt5_market[p.symbol].bid < sig.tps[1]
       ELSE Ask(p.symbol, mt5_market[p.symbol]) > sig.tps[1]

Flags(sig) == <<sig.progressive, sig.tp1_closed, sig.tp2_closed>>

\* C5: a protection pass sends no partial close and no stop modification for a
\* position whose first take-profit has not been reached, and leaves the progress
\* flags of its tracked entry as they were
C5_NothingBeforeTp1 ==
    [][trace'.op = "protect" =>
          \A p \in mt5_positions : \A k \in OwnEntries(active_signals, p) :
              Tp1NotReached(p, active_signals[k].sig) =>
                  /\ \A i \in 1..Len(trace'.closes) : trace'.closes[i].ticket # p.ticket
                  /\ \A i \in 1..Len(trace'.sl_reqs) :
                        trace'.sl_reqs[i].ticket # Mt5Ticket(p.ticket)
                  /\ \E j \in 1..Len(active_signals') :
                        /\ active_signals'[j].id = active_signals[k].id
                        /\ Flags(active_signals'[j].sig) = Flags(active_signals[k].sig)]_vars

\* the TP1 partial closes a pass sent for a ticket: their indexes in the closes
Tp1Sent(closes, ticket) ==
    {i \in 1..Len(closes) : closes[i].ticket = ticket /\ closes[i].which = "tp1"}

\* tp1_closed of the entry stored under id (FALSE when the id is gone)
Tp1Flag(as, id) == \E j \in 1..Len(as) : as[j].id = id /\ as[j].sig.tp1_closed

\* C20: for a progressive position, a pass sets the tp1_closed flag of its tracked
\* entry only when the venue confirmed the TP1 partial close of that position in the
\* pass; a failed close leaves the flag false; once the flag is true the pass sends
\* no TP1 partial close for the position
C20_Tp1FlagFollowsVenue ==
    [][trace'.op = "protect" =>
          \A p \in mt5_positions : \A k \in OwnEntries(active_signals, p) :
              LET sig == active_signals[k].sig
                  sent == Tp1Sent(trace'.closes, p.ticket)
                  after == Tp1Flag(active_signals', active_signals[k].id)
              IN sig.progressive =>
                    /\ sig.tp1_closed => sent = {} /\ after
                    /\ (~sig.tp1_closed /\ after) => \E i \in sent : trace'.closes[i].done
                    /\ (\E i \in sent : ~trace'.closes[i].done) => ~after]_vars

OpenedVolume(ticket) == (CHOOSE o \in opened : o.ticket = ticket).volume

\* C6: once the TP1 partial close and the TP2 partial close of a position have both
\* executed, the two closed sizes together do not exceed the size the position was
\* opened with
C6_PartialsWithinOriginal ==
    \A r \in partials :
        r.tp1 > 0 /\ r.tp2 > 0 => r.tp1 + r.tp2 <= OpenedVolume(r.ticket)

\* both partial closes executed and the second was cut down to what remained
C6_Witness ==
    \E r \in partials :
        /\ r.tp1 > 0 /\ r.tp2 > 0
        /\ r.tp2 < r.tp1
        /\ r.tp1 + r.tp2 = OpenedVolume(r.ticket)

-----------------------------------------------------------------------------
(* SpecSched: the alert task and the protection task on one event loop *)

\* symbol_info_tick is tried this many times (line 998)
TICK_TRIES == 5

Suspends_m(point) == TRUE

\* the places where a task stands between two statement groups, and whether the
\* statement there is an await that suspends the task:
\*   next_position   the for loop of _manage_mt5_protection (lines 509-648): no await
\*   pass_end        await asyncio.sleep(1) after a pass (line 502)
\*   update_venues   between the MT5 side and the Bybit side of an update
\*                   (lines 779-784): no await
\*   tick_retry      await asyncio.sleep(0.1) in the tick retry loop (line 1001)
\*   handler_end     the handler returns to the event loop
Suspends(point) == point \in {"pass_end", "tick_retry", "handler_end"}

\* who holds the loop after a task stopped at a point
Holds(task, point) == IF Suspends(point) THEN "none" ELSE task

\* the loop runs a task when it is free, or goes on with the task that holds it
CanRun(task) == sched.running \in {"none", task}

\* on_message_received lines 705-735: the parser returned a signal and the dedup
\* gate lets it through
Accepted(signal) ==
    /\ ~ParserRaises(signal)
    /\ ~IsDuplicate(recent_signals, <<signal.symbol, signal.side>>, now)

\* handle_signal_update lines 762-781: the broker side
UpdateMt5Side(st, signal, cfg, market, env) ==
    IF cfg.mt5_enabled
    THEN UpdateMt5Positions(st, ByTicket({p \in st.mt5 : p.symbol = signal.symbol}), 1,
                            signal, market, env)
    ELSE st

\* handle_signal_update lines 783-831: the exchange side
UpdateBybitSide(st, signal, cfg, env) ==
    IF cfg.bybit_enabled THEN UpdateBybit(st, signal, env) ELSE st

\* the protection task wakes up: positions = mt5.positions_get() (lines 498, 506-507)
PassBegin ==
    /\ Monitoring
    /\ config.mt5_enabled
    /\ CanRun("protect")
    /\ sched.protect = <<>>
    /\ mt5_positions # {}
    /\ sched' = [sched EXCEPT !.protect = ByTicket(mt5_positions),
                              !.running = Holds("protect", "next_position")]
    /\ trace' = [NoTrace EXCEPT !.op = "pass_begin"]
    /\ UNCHANGED <<phase, now, config, new_trades_enabled, engineVars, storeVars,
                   venueVars, ghostVars>>

\* one round of the for loop (lines 509-648) on the next position of the list the
\* pass fetched; an exception ends the pass (line 500)
PassStep(env) ==
    /\ phase = "running"
    /\ CanRun("protect")
    /\ sched.protect # <<>>
    /\ LET st == ProtectPosition(Start, Head(sched.protect), mt5_market, env)
           rest == IF st.raised THEN <<>> ELSE Tail(sched.protect)
       IN /\ Commit(st)
          /\ trace' = TraceOf("pass_step", st)
          /\ sched' = [sched EXCEPT
                          !.protect = rest,
                          !.running = Holds("protect", IF rest = <<>> THEN "pass_end"
                                                       ELSE "next_position")]
    /\ UNCHANGED <<phase, now, config, new_trades_enabled, recent_signals,
                   bybit_status, mt5_market, last_accepted, last_pass>>

\* on_message_received for an update alert, up to the end of the broker side of
\* handle_signal_update (lines 686-739, 754-781)
UpdateMt5Step(signal, env) ==
    /\ Listening
    /\ CanRun("alert")
    /\ sched.alert.stage = "idle"
    /\ signal.action # "none"
    /\ Accepted(signal)
    /\ LET st == UpdateMt5Side(Start, signal, config, mt5_market, env)
       IN /\ Commit(st)
          /\ trace' = [TraceOf("update_mt5", st) EXCEPT !.signal = signal]
    /\ recent_signals' = Remember(recent_signals, <<signal.symbol, signal.side>>, now)
    /\ sched' = [sched EXCEPT !.alert = [stage |-> "bybit", signal |-> signal, tries |-> 0],
                              !.running = Holds("alert", "update_venues")]
    /\ UNCHANGED <<phase, now, config, new_trades_enabled, bybit_status, mt5_market,
                   last_accepted, last_pass>>

\* the exchange side of the update (lines 783-831); the handler returns
UpdateBybitStep(env) ==
    /\ phase = "running"
    /\ CanRun("alert")
    /\ sched.alert.stage = "bybit"
    /\ LET signal == sched.alert.signal
           st == UpdateBybitSide(Start, signal, config, env)
       IN /\ Commit(st)
          /\ trace' = [TraceOf("update_bybit", st) EXCEPT !.signal = signal]
    /\ sched' = [sched EXCEPT !.alert = Idle.alert,
                              !.running = Holds("alert", "handler_end")]
    /\ UNCHANGED <<phase, now, config, new_trades_enabled, recent_signals,
                   bybit_status, mt5_market, last_accepted, last_pass>>

\* on_message_received for a trade alert (lines 686-752) and execute_trade up to the
\* first await that suspends: the sleep of the tick retry loop (line 1001), reached
\* when symbol_info_tick answers None; otherwise the handler runs to its end
TradeStart(signal, env) ==
    /\ Listening
    /\ CanRun("alert")
    /\ sched.alert.stage = "idle"
    /\ signal.action = "none"
    /\ Accepted(signal)
    /\ recent_signals' = Remember(recent_signals, <<signal.symbol, signal.side>>, now)
    /\ IF /\ CheckSpread(signal, config, mt5_market) # "fail"
          /\ new_trades_enabled
          /\ signal.type = "forex"
          /\ config.mt5_enabled
          /\ ~env.tick
       THEN /\ sched' = [sched EXCEPT
                            !.alert = [stage |-> "tick_wait", signal |-> signal,
                                       tries |-> 1],
                            !.running = Holds("alert", "tick_retry")]
            /\ trace' = [NoTrace EXCEPT !.op = "trade_start", !.signal = signal]
            /\ UNCHANGED <<active_signals, trade_history, storeVars, mt5_positions,
                           next_ticket, bybit_positions, opened, partials>>
       ELSE LET st0 == Dispatch(Start, signal, env)
                st == IF CheckSpread(signal, config, mt5_market) = "fail"
                      THEN Log(st0, HistoryRecord(signal.symbol, "--",
                                                  "Spread limit exceeded", FALSE))
                      ELSE st0
            IN /\ Commit(st)
               /\ trace' = [TraceOf("trade_start", st) EXCEPT !.signal = signal]
               /\ sched' = [sched EXCEPT !.running = Holds("alert", "handler_end")]
    /\ UNCHANGED <<phase, now, config, new_trades_enabled, bybit_status, mt5_market,
                   last_accepted, last_pass>>

RetryLoopEnds_m(tries, tick) == tick

\* lines 998-1001: for _ in range(5) ends after the fifth sleep, or before when
\* symbol_info_tick answers; tries counts the requests that returned nothing
RetryLoopEnds(tries, tick) == tries >= TICK_TRIES \/ tick

\* the alert task wakes from the sleep of line 1001: the next try of
\* symbol_info_tick, or after the last sleep the rest of _execute_mt5_trade
\* (lines 1003-1107) without a tick
TradeResume(env) ==
    /\ phase = "running"
    /\ CanRun("alert")
    /\ sched.alert.stage = "tick_wait"
    /\ LET signal == sched.alert.signal
           tries == sched.alert.tries
           got == tries < TICK_TRIES /\ env.tick
       IN IF ~RetryLoopEnds(tries, env.tick)
          THEN /\ sched' = [sched EXCEPT !.alert.tries = tries + 1,
                                         !.running = Holds("alert", "tick_retry")]
               /\ trace' = [NoTrace EXCEPT !.op = "trade_resume", !.signal = signal]
               /\ UNCHANGED <<active_signals, trade_history, storeVars, mt5_positions,
                              next_ticket, bybit_positions, opened, partials>>
          ELSE LET st == ExecuteMt5Trade(Start, signal, config, mt5_market[signal.symbol],
                                         [env EXCEPT !.tick = got], now)
               IN /\ Commit(st)
                  /\ trace' = [TraceOf("trade_resume", st) EXCEPT !.signal = signal]
                  /\ sched' = [sched EXCEPT !.alert = Idle.alert,
                                            !.running = Holds("alert", "handler_end")]
    /\ UNCHANGED <<phase, now, config, new_trades_enabled, recent_signals,
                   bybit_status, mt5_market, last_accepted, last_pass>>

SchedConfigs ==
    {c \in Configs : /\ c.mt5_enabled /\ c.bybit_enabled
                     /\ c.tp_mode = "hybrid" /\ c.tp_split = DefaultSplit}

SchedAlerts ==
    {NewTrade("EURUSD", "BUY", "forex", 1), NewTrade("EURUSD", "SELL", "forex", 1)}

SchedUpdates ==
    {Update("EURUSD", "BUY", "forex", "CLOSE", 0),
     Update("EURUSD", "BUY", "forex", "MOVE_SL", 190)}

\* symbol_info_tick answers or not; the venues accept every request
SchedEnvs == [tick : BOOLEAN, balance : {2000}, outcomes : {<<"done">>}, bybit : {"ok"}]

SchedQuotes == [bid : {200, 240}, spread : {2}]

InitSched == InitWith(SchedConfigs, {<<>>})

NextSched ==
    \/ BootStep({"AUTHENTICATED"})
    \/ Tick(DEDUP_WINDOW, DEDUP_WINDOW)
    \/ PassBegin
    \/ \E env \in ProtectEnvs : PassStep(env)
    \/ \E a \in SchedUpdates : \E env \in ProtectEnvs : UpdateMt5Step(a, env)
    \/ \E env \in ProtectEnvs : UpdateBybitStep(env)
    \/ \E a \in SchedAlerts : \E env \in SchedEnvs : TradeStart(a, env)
    \/ \E env \in SchedEnvs : TradeResume(env)
    \/ \E q \in SchedQuotes : QuoteMove("EURUSD", q)

SpecSched == InitSched /\ [][NextSched]_vars

\* the steps of the alert task and of the protection task
AlertSteps == {"update_mt5", "update_bybit", "trade_start", "trade_resume"}
PassSteps == {"pass_begin", "pass_step"}

\* the step changed a tracked signal or a venue position, or sent a request to a venue
Mutates ==
    \/ active_signals' # active_signals
    \/ mt5_positions' # mt5_positions
    \/ bybit_positions' # bybit_positions
    \/ trace'.orders # <<>> \/ trace'.sl_reqs # <<>> \/ trace'.closes # <<>>

\* C19: under the cooperative scheduler no step of the update handler or of trade
\* execution that changes a tracked signal or modifies or closes a venue position
\* runs between the start and the end of one protection pass, and no step of a
\* protection pass runs in the middle of an update handler run
C19_NoInterleaving ==
    [][/\ (sched.protect # <<>> /\ trace'.op \in AlertSteps) => ~Mutates
       /\ sched.alert.stage = "bybit" => trace'.op \notin PassSteps]_vars

\* a pass has worked on one position and has another one to go while the alert
\* task sleeps inside trade execution
C19_Witness ==
    /\ trace.op = "pass_step"
    /\ trace.sl_reqs # <<>>
    /\ sched.protect # <<>>
    /\ sched.alert.stage = "tick_wait"

\* C29: the live tick is requested at most 5 times and the retry loop ends: every
\* wake-up of the loop either leaves it or counts one more request; when the fifth
\* request has returned nothing the run sends no order, appends exactly one failed
\* record and the store holds it
C29_TickRetriesBounded ==
    [][/\ sched'.alert.stage = "tick_wait" => sched'.alert.tries \in 1..5
       /\ (sched.alert.stage = "tick_wait" /\ trace'.op = "trade_resume") =>
             \/ sched'.alert.stage = "idle"
             \/ /\ sched'.alert.stage = "tick_wait"
                /\ sched'.alert.tries = sched.alert.tries + 1
       /\ (/\ sched.alert.stage = "tick_wait" /\ sched.alert.tries = 5
           /\ trace'.op = "trade_resume") =>
             /\ sched'.alert.stage = "idle"
             /\ trace'.orders = <<>>
             /\ Len(trace'.logged) = 1
             /\ ~trace'.logged[1].success
             /\ db_history' = SavedHistory(trade_history')]_vars

\* a run gave up after the last sleep: nothing sent, the failure in the history
C29_Witness ==
    /\ trace.op = "trade_resume"
    /\ sched.alert.stage = "idle"
    /\ trace.orders = <<>>
    /\ trace.resolved # None
    /\ Len(trace.logged) = 1
    /\ trace.logged[1].status = "Error"

-----------------------------------------------------------------------------
(* SpecClose: CLOSE updates against positions tracked by alerts and restarts *)

CloseConfigs ==
    {c \in Configs : /\ c.mt5_enabled /\ c.bybit_enabled
                     /\ c.tp_mode = "hybrid" /\ c.tp_split = DefaultSplit}

\* a broker channel and an exchange channel both quote BTCUSDT (_check_spread
\* expects crypto symbols on the broker side, lines 898-906)
CloseAlerts ==
    {NewTrade("EURUSD", "BUY", "forex", 1), NewTrade("BTCUSDT", "BUY", "forex", 1),
     NewTrade("BTCUSDT", "SELL", "crypto", 1)}

CloseUpdates ==
    {Update("EURUSD", "BUY", "forex", "CLOSE", 0),
     Update("BTCUSDT", "BUY", "crypto", "CLOSE", 0)}

\* what the venues answer to the close requests of one update
CloseEnvs ==
    [tick : {TRUE}, balance : {2000},
     outcomes : {<<"done">>, <<"fail">>, <<"fail", "done">>}, bybit : {"ok"}]

InitClose == InitWith(CloseConfigs, {<<>>})

NextClose ==
    \/ BootStep({"AUTHENTICATED"})
    \/ Stop
    \/ \E a \in CloseAlerts : \E env \in ProtectEnvs : OnMessage(a, env)
    \/ \E a \in CloseUpdates : \E env \in CloseEnvs : ManualSignal(a, env)

SpecClose == InitClose /\ [][NextClose]_vars

\* the venue tickets whose close the venue confirmed in the handler run
ConfirmedClosed(t) ==
    {IF t.closes[i].which = "bybit" THEN BybitTicket(t.signal.symbol)
     ELSE Mt5Ticket(t.closes[i].ticket)
     : i \in {j \in 1..Len(t.closes) : t.closes[j].done}}

\* C21: when a CLOSE update is processed, the tracked entries of the positions whose
\* close the venue confirmed, and no others, leave the tracked set and the store holds
\* the set that remains; when the venue confirms no close the tracked set is unchanged
C21_CloseRemovesOwnEntry ==
    [][(trace'.op = "manual" /\ trace'.signal.action = "CLOSE") =>
          LET confirmed == ConfirmedClosed(trace')
              own == {active_signals[i].id :
                         i \in {j \in 1..Len(active_signals) :
                                   active_signals[j].sig.ticket \in confirmed}}
          IN /\ active_signals' = DictDel(active_signals, own)
             /\ own # {} => db_signals' = SavedSignals(active_signals')
             /\ confirmed = {} => active_signals' = active_signals]_vars

-----------------------------------------------------------------------------
(* Functions of the engine checked on their own: every call is one step *)

\* a function of the code is called on args and returns result; nothing else moves
Call(fn, args, result) ==
    /\ trace' = [NoTrace EXCEPT !.op = "call",
                                !.call = [fn |-> fn, args |-> args, result |-> result]]
    /\ UNCHANGED <<phase, now, config, new_trades_enabled, engineVars, storeVars,
                   venueVars, ghostVars, sched>>

Called(fn) == trace.op = "call" /\ trace.call.fn = fn

RECURSIVE SumLots(_, _)
SumLots(orders, i) == IF i > Len(orders) THEN 0 ELSE orders[i].lot + SumLots(orders, i + 1)

-----------------------------------------------------------------------------
(* SpecSplit: the order plan of split mode (lines 1012-1029) *)

\* the sized totals planned: 1 .. MaxLot volume steps
MaxLot == 120

SplitConfigs ==
    {c \in Configs : c.mt5_enabled /\ c.tp_mode = "split" /\ c.tp_split = DefaultSplit}

\* lines 1009-1042 on a signal with ntps take-profit prices and a sized total
PlanOrders(total_lot, ntps) ==
    LET signal == NewTrade("EURUSD", "BUY", "forex", ntps)
    IN Call("OrdersToPlace", [tps |-> signal.tps, total_lot |-> total_lot],
            OrdersToPlace(signal, config, total_lot, Mt5Info(signal.symbol)))

InitSplit == InitWith(SplitConfigs, {<<>>})

\* calculate_mt5_lot returns at least volume_min for a stop away from the entry; the
\* parser hands over at least one take-profit price
NextSplit == \E total_lot \in 1..MaxLot : \E ntps \in 1..3 : PlanOrders(total_lot, ntps)

SpecSplit == InitSplit /\ [][NextSplit]_vars

\* C22: in split mode with the shares 33/33/34 the sizes of the planned orders sum to
\* exactly the sized total, or the plan is one order of the full size on the first
\* take-profit, for every sized total and every number of take-profit prices
C22_SplitSumsToTotal ==
    Called("OrdersToPlace") =>
        LET total == trace.call.args.total_lot
            tps == trace.call.args.tps
            orders == trace.call.result
        IN \/ SumLots(orders, 1) = total
           \/ /\ Len(orders) = 1 /\ Len(tps) > 0
              /\ orders[1].lot = total /\ orders[1].tp = tps[1]

-----------------------------------------------------------------------------
(* SpecQty: calculate_bybit_qty on its own *)

\* the instrument rules, entries, stops and balances the function is called with
QtyRules ==
    [steps_per_unit : {10, 1000}, minOrderQty : {1, 30}, minNotionalValue : {5}]
QtyEntries == {100, 200, 7000}
QtyStopDistances == {0, 10, 40}
QtyBalances == {10, 40, 500, 2000}

\* risk_manager.calculate_bybit_qty(rules, entry, sl, balance)
SizeBybit(rules, entry, sl, balance) ==
    Call("calculate_bybit_qty",
         [entry |-> entry, sl |-> sl, balance |-> balance, rules |-> rules],
         calculate_bybit_qty(rules, entry, sl, balance))

\* risk_manager.calculate_mt5_lot(symbol_info, entry, sl, balance)
SizeMt5(info, entry, sl, balance) ==
    Call("calculate_mt5_lot",
         [entry |-> entry, sl |-> sl, info |-> info, balance |-> balance],
         calculate_mt5_lot(info, entry, sl, balance))

InitQty == InitWith(StopConfigs, {<<>>})

NextQty ==
    \E entry \in QtyEntries : \E d \in QtyStopDistances :
        \E sl \in {entry - d, entry + d} : \E balance \in QtyBalances :
            \/ \E rules \in QtyRules : SizeBybit(rules, entry, sl, balance)
            \/ SizeMt5(Mt5Info("EURUSD"), entry, sl, balance)

SpecQty == InitQty /\ [][NextQty]_vars

\* the true minimum in quantity steps: the larger of the stated minimum and
\* minNotional / entry, rounded up to the step
TrueMinimum(a) ==
    LET byNotional == CHOOSE n \in 0..(a.rules.minNotionalValue * a.rules.steps_per_unit) :
                         /\ n * a.entry >= a.rules.minNotionalValue * a.rules.steps_per_unit
                         /\ (n > 0 => (n - 1) * a.entry
                                        < a.rules.minNotionalValue * a.rules.steps_per_unit)
    IN IF a.rules.minOrderQty >= byNotional THEN a.rules.minOrderQty ELSE byNotional

\* is the risk-derived size, balance * risk% / |entry - sl|, below n steps
RiskSizeBelow(a, n) ==
    a.balance * default_risk_percent * a.rules.steps_per_unit
        < n * 100 * Abs(a.entry - a.sl)

-----------------------------------------------------------------------------
(* SpecResolve: _resolve_mt5_symbol on its own and inside trade execution *)

ResolveConfigs ==
    {c \in Configs : /\ c.mt5_enabled /\ ~c.bybit_enabled
                     /\ c.tp_mode = "hybrid" /\ c.tp_split = DefaultSplit}

\* what the broker can report for a symbol and its suffixed variant
BrokerTables == [{"EURUSD", Suffixed("EURUSD")} -> TradeModes]

ResolveAlerts ==
    {NewTrade("EURUSD", "BUY", "forex", 1), NewTrade("EURUSD", "SELL", "forex", 1)}

\* handler runs against a broker that lists the raw symbol (_check_spread reads its
\* symbol_info before the trade is dispatched) in any trade mode
ResolveEnvs ==
    [tick : {TRUE}, balance : {2000}, outcomes : {<<"done">>, <<"fail">>},
     bybit : {"ok"}, symbols : {t \in BrokerTables : t["EURUSD"] # "absent"}]

\* self._resolve_mt5_symbol(raw_symbol)
Resolve(table, raw_symbol) ==
    Call("_resolve_mt5_symbol", [table |-> table, raw_symbol |-> raw_symbol],
         ResolveMt5Symbol(table, raw_symbol))

InitResolve == InitWith(ResolveConfigs, {<<>>})

NextResolve ==
    \/ BootStep({"AUTHENTICATED"})
    \/ \E table \in BrokerTables : Resolve(table, "EURUSD")
    \/ \E a \in ResolveAlerts : \E env \in ResolveEnvs : OnMessage(a, env)

SpecResolve == InitResolve /\ [][NextResolve]_vars

\* C24: resolution returns the raw symbol when the broker reports it with full trade
\* mode, otherwise the suffixed symbol when that one has full trade mode, otherwise
\* none; what it returns is never unknown to the broker or restricted; and a handler
\* run whose resolution returned none places no order and writes one failed record
C24_ResolvesTradeableOnly ==
    /\ Called("_resolve_mt5_symbol") =>
          LET table == trace.call.args.table
              raw == trace.call.args.raw_symbol
              result == trace.call.result
          IN /\ result # None => table[result] = "full"
             /\ table[raw] = "full" => result = raw
             /\ (table[raw] # "full" /\ table[Suffixed(raw)] = "full")
                   => result = Suffixed(raw)
             /\ (table[raw] # "full" /\ table[Suffixed(raw)] # "full") => result = None
    /\ (trace.op = "alert" /\ trace.resolved = None) =>
          /\ trace.orders = <<>>
          /\ Len(trace.logged) = 1
          /\ ~trace.logged[1].success
          /\ db_history = SavedHistory(trade_history)

\* an alert ran into a broker whose raw symbol is restricted and whose suffixed
\* variant is missing: nothing was sent and the failure is in the history
C24_Witness ==
    /\ trace.op = "alert"
    /\ trace.resolved = None
    /\ trace.orders = <<>>
    /\ Len(trace.logged) = 1

-----------------------------------------------------------------------------
(* signal_parser.py: SignalParser.parse_message on a text of tokens *)

\* a text is a sequence of tokens: upper-case words and numbers, separated by
\* whitespace or a colon (text = text.upper(), line 33)
Word(w) == [w |-> w, n |-> 0]
Number(n) == [w |-> "#", n |-> n]
IsNumber(tok) == tok.w = "#"

\* the least index of a set of match positions (re.search: the leftmost match), 0
\* when nothing matches
Leftmost(matches) ==
    IF matches = {} THEN 0 ELSE CHOOSE i \in matches : \A j \in matches : i <= j

\* patterns['symbol'] on the words of the model: a run of six or more letters, or
\* one of the listed names
SymbolWords == {"XAUUSD", "EURUSD"}

\* patterns['type']
SideWords == {"BUY", "SELL", "LONG", "SHORT"}

\* the keyword alternatives of patterns['price'] and patterns['sl']
PriceWords == {"ENTRY", "PRICE", "AT", "@"}
StopWords == {"SL", "STOPLOSS"}

\* _extract_value for a pattern of the shape keyword \s*:?\s*(\d+\.?\d*): the number
\* right after the leftmost keyword that has one; 0 stands for None
ExtractValue(text, keywords) ==
    LET i == Leftmost({j \in 1..(Len(text) - 1) :
                          text[j].w \in keywords /\ IsNumber(text[j + 1])})
    IN IF i = 0 THEN 0 ELSE text[i + 1].n

\* _extract_all_tps: every number right after a TP / TARGET label, in order,
\* without repeats (the labels of the model carry their index: "TP1:" is one word)
RECURSIVE ExtractAllTps(_, _, _)
ExtractAllTps(text, i, result) ==
    IF i >= Len(text) THEN result
    ELSE IF /\ text[i].w \in {"TP", "TARGET"}
            /\ IsNumber(text[i + 1])
            /\ ~\E k \in 1..Len(result) : result[k] = text[i + 1].n
    THEN ExtractAllTps(text, i + 1, Append(result, text[i + 1].n))
    ELSE ExtractAllTps(text, i + 1, result)

\* patterns['action_move_sl'] = (?:MOVE SL TO|SL TO|BE)\s*:?\s*(\d+\.?\d*): the
\* positions where the phrase and the number after it match, by the word the
\* number follows
MoveSlMatches(text) ==
    {j \in 2..Len(text) :
        /\ IsNumber(text[j])
        /\ \/ text[j - 1].w = "BE"
           \/ j > 2 /\ text[j - 1].w = "TO" /\ text[j - 2].w = "SL"}

\* patterns['action_close'] = (?:CLOSE|EXIT)\s+(?:HALF|PARTIAL|ALL|NOW)
CloseMatches(text) ==
    {j \in 1..(Len(text) - 1) :
        text[j].w \in {"CLOSE", "EXIT"} /\ text[j + 1].w \in {"HALF", "PARTIAL", "ALL", "NOW"}}

\* what parse_message hands back: None, a signal, or the exception that leaves it
Returned(kind, signal) == [kind |-> kind, signal |-> signal]

\* action_val: a float, the literal "BE", or None
Float(n) == <<"float", n>>
BE == <<"BE">>

\* parse_message(text, channel_info); asset_type is channel_info['type']
parse_message(text, asset_type) ==
    LET symbol_match == Leftmost({j \in 1..Len(text) : text[j].w \in SymbolWords})
        type_match == Leftmost({j \in 1..Len(text) : text[j].w \in SideWords})
        side == IF text[type_match].w \in {"BUY", "LONG"} THEN "BUY" ELSE "SELL"
        keyword_entry == ExtractValue(text, PriceWords)
        \* lines 55-59: the number right after BUY / SELL
        entry == IF keyword_entry # 0 THEN keyword_entry
                 ELSE ExtractValue(text, SideWords)
        sl == ExtractValue(text, StopWords)
        tps == ExtractAllTps(text, 1, <<>>)
        move_sl_match == Leftmost(MoveSlMatches(text))
        action == IF move_sl_match # 0 THEN "MOVE_SL"
                  ELSE IF CloseMatches(text) # {} THEN "CLOSE"
                  ELSE "none"
        \* line 75: float(group(1)) if group(1) else "BE"; the pattern matches only
        \* with a number in group 1
        action_val == IF move_sl_match = 0 THEN <<>>
                      ELSE IF IsNumber(text[move_sl_match])
                      THEN Float(text[move_sl_match].n)
                      ELSE BE
    IN IF symbol_match = 0 THEN Returned("None", <<>>)
       ELSE IF type_match = 0 THEN Returned("None", <<>>)
       ELSE IF entry = 0 /\ sl = 0 /\ tps = <<>> /\ action = "none"
       THEN Returned("None", <<>>)
       \* line 101: the log line reads tps[0]
       ELSE IF tps = <<>> THEN Returned("IndexError", <<>>)
       ELSE Returned("signal",
                     [symbol |-> text[symbol_match].w, side |-> side,
                      type |-> asset_type, entry |-> entry, sl |-> sl, tps |-> tps,
                      action |-> action, action_val |-> action_val])

-----------------------------------------------------------------------------
(* SpecParse: the parser on the texts a channel can post *)

\* the first line of a text: symbol, side and an inline price in the orders the
\* channels use
Heads ==
    {<<Word("XAUUSD")>>,
     <<Word("XAUUSD"), Word("BUY")>>,
     <<Word("XAUUSD"), Word("SELL")>>,
     <<Word("XAUUSD"), Word("BUY"), Number(5055)>>,
     <<Word("BUY"), Word("XAUUSD")>>,
     <<Word("BUY"), Word("XAUUSD"), Number(5055)>>,
     <<Word("BUY"), Number(5055)>>}

EntryLines == {<<>>, <<Word("ENTRY"), Number(5056)>>}
TargetLines ==
    {<<>>, <<Word("TP"), Number(5060)>>,
     <<Word("TP"), Number(5060), Word("TP"), Number(5065)>>}
StopLines == {<<>>, <<Word("SL"), Number(5045)>>}
ActionLines ==
    {<<>>,
     <<Word("MOVE"), Word("SL"), Word("TO"), Number(5050)>>,
     <<Word("SL"), Word("TO"), Number(5050)>>,
     <<Word("BE"), Number(5050)>>,
     <<Word("MOVE"), Word("SL"), Word("TO"), Word("BE")>>,
     <<Word("SL"), Word("TO"), Word("BE")>>,
     <<Word("BE")>>,
     <<Word("CLOSE"), Word("ALL")>>}

Texts ==
    {h \o e \o t \o l \o a :
        h \in Heads, e \in EntryLines, t \in TargetLines, l \in StopLines,
        a \in ActionLines}

\* self.parser.parse_message(text, channel_info)
Parse(text, asset_type) ==
    Call("parse_message", [type |-> asset_type, text |-> text],
         parse_message(text, asset_type))

InitParse == InitWith(ResolveConfigs, {<<>>})

NextParse == \E text \in Texts : Parse(text, "forex")

SpecParse == InitParse /\ [][NextParse]_vars

\* what a text holds, read off its words
Has(text, words) == \E j \in 1..Len(text) : text[j].w \in words
HasPhrase(text, phrase) ==
    \E j \in 0..(Len(text) - Len(phrase)) :
        \A k \in 1..Len(phrase) : text[j + k] = phrase[k]
MoveStopPhrase(text) == HasPhrase(text, <<Word("SL"), Word("TO")>>) \/ Has(text, {"BE"})
ClosePhrase(text) == HasPhrase(text, <<Word("CLOSE"), Word("ALL")>>)
\* the number right after the move-stop phrase, 0 when none follows
NumberAfterPhrase(text) ==
    LET ends == {j \in 1..Len(text) :
                    \/ text[j].w = "BE"
                    \/ j > 1 /\ text[j].w = "TO" /\ text[j - 1].w = "SL"}
        j == Leftmost({k \in ends : ~(text[k].w = "TO" /\ k < Len(text)
                                       /\ text[k + 1].w = "BE")})
    IN IF j = 0 \/ j = Len(text) \/ ~IsNumber(text[j + 1]) THEN 0 ELSE text[j + 1].n

\* C25: a text with a recognized symbol and an update action but no side keyword
\* parses to a signal that carries the action; it does not parse to none
C25_UpdateWithoutSide ==
    Called("parse_message") =>
        LET text == trace.call.args.text
            result == trace.call.result
        IN (/\ Has(text, SymbolWords) /\ ~Has(text, SideWords)
            /\ Has(text, {"TP"})
            /\ MoveStopPhrase(text) \/ ClosePhrase(text))
           => /\ result.kind = "signal"
              /\ result.signal.action # "none"

\* C26: a text with a move-stop phrase (MOVE SL TO, SL TO, BE) parses to the action
\* MOVE_SL whose value is the number after the phrase, or the breakeven marker when
\* no number follows (texts that name a symbol, a side and a take-profit price)
C26_MoveStopValue ==
    Called("parse_message") =>
        LET text == trace.call.args.text
            result == trace.call.result
        IN (/\ Has(text, SymbolWords) /\ Has(text, SideWords) /\ Has(text, {"TP"})
            /\ MoveStopPhrase(text))
           => /\ result.kind = "signal"
              /\ result.signal.action = "MOVE_SL"
              /\ result.signal.action_val =
                    IF NumberAfterPhrase(text) # 0 THEN Float(NumberAfterPhrase(text))
                    ELSE BE

\* C27: parse_message returns a signal or none and never fails with an error; a
\* text with a symbol, a side and an entry, a stop or an update action but no
\* take-profit price parses to a signal with an empty take-profit list
C27_NeverRaises ==
    Called("parse_message") =>
        LET text == trace.call.args.text
            result == trace.call.result
        IN /\ result.kind \in {"signal", "None"}
           /\ (/\ Has(text, SymbolWords) /\ Has(text, SideWords) /\ ~Has(text, {"TP"})
               /\ Has(text, PriceWords \cup StopWords) \/ ClosePhrase(text))
              => /\ result.kind = "signal"
                 /\ result.signal.tps = <<>>

\* C28: in a text with no labeled entry and no number right after the side keyword,
\* the entry is the first number after the side keyword and the symbol that follows
\* it: BUY XAUUSD 5055 with labeled targets and stop parses to entry 5055
C28_EntryAfterSymbol ==
    Called("parse_message") =>
        LET text == trace.call.args.text
            result == trace.call.result
        IN (/\ Len(text) >= 3
            /\ text[1].w \in SideWords /\ text[2].w \in SymbolWords /\ IsNumber(text[3])
            /\ ~Has(text, PriceWords)
            /\ Has(text, {"TP"}) /\ Has(text, StopWords)
            /\ ~MoveStopPhrase(text) /\ ~ClosePhrase(text))
           => /\ result.kind = "signal"
              /\ result.signal.symbol = text[2].w
              /\ result.signal.entry = text[3].n


-----------------------------------------------------------------------------
(* SpecHistory: one venue, manual alerts that find no live tick, stops and
   restarts; enough handlers run for the history to pass the stored tail *)

MaxRecords == 52

HistoryConfigs ==
    {c \in Configs : /\ c.mt5_enabled /\ ~c.bybit_enabled
                     /\ c.tp_mode = "hybrid" /\ c.tp_split = DefaultSplit}

HistoryAlerts == {NewTrade("EURUSD", "BUY", "forex", 1)}

\* symbol_info_tick returns nothing: every handler appends one record and sends
\* no order
HistoryEnvs == [tick : {FALSE}, balance : {2000}, outcomes : {<<"done">>}, bybit : {"ok"}]

InitHistory == InitWith(HistoryConfigs, {<<>>})

NextHistory ==
    \/ BootStepUpTo({"AUTHENTICATED"}, MaxRecords)
    \/ Stop
    \/ \E a \in HistoryAlerts : \E env \in HistoryEnvs : ManualSignalUpTo(a, env, MaxRecords)

SpecHistory == InitHistory /\ [][NextHistory]_vars

\* C30: the history is append-only and bounded: a handler of the running engine
\* leaves in memory the 50 most recent records of the old list followed by the
\* ones it appended, in insertion order, and the stored tail equals that list
C30_HistoryBounded ==
    [][(phase = "running" /\ phase' = "running") =>
          /\ trade_history' = Tail50(trade_history \o trace'.logged)
          /\ Len(trade_history') <= 50
          /\ Len(db_history') <= 50
          /\ trace'.logged # <<>> => db_history' = trade_history']_vars


-----------------------------------------------------------------------------
(* SpecSteps: one progressive position under the monitor; the terminal answers
   each request of a pass on its own *)

StepAlerts == {NewTrade("EURUSD", "BUY", "forex", 3)}

\* order_send answers the requests of a pass in turn
StepEnvs ==
    [tick : {TRUE}, balance : {2000},
     outcomes : {<<"done">>, <<"fail">>, <<"fail", "done">>}, bybit : {"ok"}]

InitSteps == InitWith(ProtectConfigs, {<<>>})

NextSteps ==
    \/ BootStep({"AUTHENTICATED"})
    \/ Tick(1, MaxTime)
    \/ \E a \in StepAlerts : \E env \in ProtectEnvs : OnMessage(a, env)
    \/ \E env \in StepEnvs : ProtectionPass(env)
    \/ \E q \in ProtectQuotes : QuoteMove("EURUSD", q)

SpecSteps == InitSteps /\ [][NextSteps]_vars

\* C31: the progress flags follow the order of the steps: in every state the
\* tp2_closed flag of a tracked entry is true only if its tp1_closed flag is true
C31_Tp2FlagAfterTp1Flag ==
    \A k \in 1..Len(active_signals) :
        active_signals[k].sig.tp2_closed => active_signals[k].sig.tp1_closed


-----------------------------------------------------------------------------
(* SpecProgressive: the order plan of progressive mode (lines 1034-1036) *)

MaxTargets == 5

\* the take-profit prices _extract_all_tps returns for a text that names n of them
Targets(n) == [j \in 1..n |-> Quoted.entry + 20 * j]

\* lines 1009-1042 on a BUY signal with the take-profit prices tps and a sized total
PlanProgressive(total_lot, tps) ==
    LET signal == [NewTrade("EURUSD", "BUY", "forex", 0) EXCEPT !.tps = tps]
    IN Call("OrdersToPlace", [tps |-> tps, total_lot |-> total_lot],
            OrdersToPlace(signal, config, total_lot, Mt5Info(signal.symbol)))

InitProgressive == InitWith(ProtectConfigs, {<<>>})

NextProgressive ==
    \E total_lot \in 1..MaxLot : \E n \in 1..MaxTargets :
        PlanProgressive(total_lot, Targets(n))

SpecProgressive == InitProgressive /\ [][NextProgressive]_vars

\* C32: in progressive mode the plan is exactly one order of the sized total whose
\* take-profit is the last take-profit price of the signal, for every number of
\* take-profit prices from one upward
C32_ProgressiveTargetsLast ==
    Called("OrdersToPlace") =>
        LET total == trace.call.args.total_lot
            tps == trace.call.args.tps
            orders == trace.call.result
        IN /\ Len(orders) = 1
           /\ orders[1].lot = total
           /\ orders[1].tp = tps[Len(tps)]


-----------------------------------------------------------------------------
(* SpecBreakeven: BUY and SELL positions under the monitor, with and without a
   stop at the terminal *)

\* the stop of a position is removed at the terminal (by hand): pos.sl reads 0.0
Mt5StopCleared(ticket) ==
    /\ \E p \in mt5_positions : p.ticket = ticket /\ p.sl # 0
    /\ mt5_positions' = {IF p.ticket = ticket THEN [p EXCEPT !.sl = 0] ELSE p
                         : p \in mt5_positions}
    /\ trace' = [NoTrace EXCEPT !.op = "stopcleared"]
    /\ UNCHANGED <<phase, now, config, new_trades_enabled, engineVars, storeVars,
                   next_ticket, mt5_market, bybit_positions, ghostVars, sched>>

BreakevenAlerts == {NewTrade("EURUSD", side, "forex", 1) : side \in {"BUY", "SELL"}}

\* a MOVE_SL update for the symbol: within the minimum distance of the opening
\* quote, away from it once the quote has moved
BreakevenUpdates == {Update("EURUSD", "BUY", "forex", "MOVE_SL", 210)}

\* the quote leaves 200 for a price beyond TP1 of the SELL or of the BUY signals
BreakevenQuotes == [bid : {170, 230}, spread : {2}]

InitBreakeven == InitWith(ResolveConfigs, {<<>>})

NextBreakeven ==
    \/ BootStep({"AUTHENTICATED"})
    \/ Tick(1, MaxTime)
    \/ \E a \in BreakevenAlerts : \E env \in ProtectEnvs : OnMessage(a, env)
    \/ \E a \in BreakevenUpdates : \E env \in ProtectEnvs : ManualSignal(a, env)
    \/ \E ticket \in 1..MaxTickets : Mt5StopCleared(ticket)
    \/ \E env \in PassEnvs : ProtectionPass(env)
    \/ \E q \in BreakevenQuotes : QuoteMove("EURUSD", q)

SpecBreakeven == InitBreakeven /\ [][NextBreakeven]_vars

\* the stop of a position is on the losing side of its entry, or there is none
LosingSide(p) ==
    IF p.type = "BUY" THEN p.sl < p.price_open
    ELSE p.sl = 0 \/ p.sl > p.price_open

\* the breakeven stop of the claim: entry plus or minus the buffer, clamped
BreakevenStop(p) ==
    LET info == Mt5Info(p.symbol)
        wanted == IF p.type = "BUY" THEN p.price_open + be_buffer * info.point
                  ELSE p.price_open - be_buffer * info.point
    IN RoundToDigits(ClampToStopLevel(p, wanted, info, mt5_market[p.symbol]), info)

BreakevenRequests(reqs, p) ==
    {i \in 1..Len(reqs) : reqs[i].ticket = Mt5Ticket(p.ticket) /\ reqs[i].src = "be"}

\* C33: in a pass where TP1 of a position is reached, a stop on the losing side of
\* entry (BUY or SELL, also no stop at all) gets a breakeven request of entry plus
\* (BUY) or minus (SELL) the buffer after the clamp; a stop at or beyond entry gets
\* no breakeven request
C33_BreakevenWhenLosing ==
    [][trace'.op = "protect" /\ ~trace'.raised =>
          \A p \in mt5_positions :
              LET k == SignalDataIndex(active_signals, p)
                  be == BreakevenRequests(trace'.sl_reqs, p)
              IN (/\ p.magic = "engine" /\ k # 0
                  /\ Len(active_signals[k].sig.tps) > 0
                  /\ Reached(p, mt5_market[p.symbol], active_signals[k].sig.tps[1])) =>
                    IF LosingSide(p)
                    THEN \E i \in be : trace'.sl_reqs[i].sl = BreakevenStop(p)
                    ELSE be = {}]_vars


\* the distance of a requested stop from the current price, on the protective side
StopDistance(req, q) ==
    IF req.side = "BUY" THEN q.bid - req.sl ELSE req.sl - Ask("EURUSD", q)

StopLevelPrice == Mt5Info("EURUSD").trade_stops_level * Mt5Info("EURUSD").point

\* C34: every stop the engine sends to the terminal, computed by breakeven, by
\* trailing or by a MOVE_SL update, is at least the terminal's minimum stop distance
\* away from the current price: BUY bid - stop, SELL stop - ask
C34_StopKeepsDistance ==
    \A i \in 1..Len(trace.sl_reqs) :
        trace.sl_reqs[i].venue = "mt5" =>
            StopDistance(trace.sl_reqs[i], mt5_market["EURUSD"]) >= StopLevelPrice

\* a MOVE_SL update asked for a stop too close to the price of a SELL position and
\* the request went out at the minimum distance
C34_Witness ==
    /\ trace.op = "manual"
    /\ \E i \in 1..Len(trace.sl_reqs) :
          /\ trace.sl_reqs[i].venue = "mt5"
          /\ trace.sl_reqs[i].src = "move"
          /\ trace.sl_reqs[i].side = "SELL"
          /\ trace.signal.action_val - Ask("EURUSD", mt5_market["EURUSD"]) < StopLevelPrice
          /\ StopDistance(trace.sl_reqs[i], mt5_market["EURUSD"])
                = StopLevelPrice + 2 * Mt5Info("EURUSD").point

-----------------------------------------------------------------------------
(* Positions of another magic number: opened by hand or by another expert on the
   same terminal account *)

\* the terminal opens a position that does not carry the engine's magic number
Mt5ForeignOpened(symbol, side, sl) ==
    /\ next_ticket <= MaxTickets
    /\ mt5_positions' = mt5_positions \cup
            {[Mt5Position(next_ticket, symbol, side, Quoted.entry, sl, 0, 2)
                EXCEPT !.magic = "other"]}
    /\ next_ticket' = next_ticket + 1
    /\ trace' = [NoTrace EXCEPT !.op = "foreign"]
    /\ UNCHANGED <<phase, now, config, new_trades_enabled, engineVars, storeVars,
                   mt5_market, bybit_positions, ghostVars, sched>>

MagicAlerts == {NewTrade("EURUSD", "BUY", "forex", 3)}

MagicUpdates == {Update("EURUSD", "BUY", "forex", "MOVE_SL", 210),
                 Update("EURUSD", "BUY", "forex", "CLOSE", 0)}

MagicQuotes == [bid : {170, 230}, spread : {2}]

InitMagic == InitWith(ProtectConfigs, {<<>>})

NextMagic ==
    \/ BootStep({"AUTHENTICATED"})
    \/ Tick(1, MaxTime)
    \/ \E a \in MagicAlerts : \E env \in ProtectEnvs : OnMessage(a, env)
    \/ \E a \in MagicUpdates : \E env \in ProtectEnvs : ManualSignal(a, env)
    \/ \E side \in {"BUY", "SELL"} : \E sl \in {0, Quoted.buy_sl} :
           Mt5ForeignOpened("EURUSD", side, sl)
    \/ \E env \in PassEnvs : ProtectionPass(env)
    \/ \E q \in MagicQuotes : QuoteMove("EURUSD", q)

SpecMagic == InitMagic /\ [][NextMagic]_vars

Foreign(ps) == {p \in ps : p.magic # "engine"}

\* the tickets the requests of the last handler named
Touched ==
    {trace.sl_reqs[i].ticket : i \in 1..Len(trace.sl_reqs)}
        \cup {Mt5Ticket(trace.closes[i].ticket) : i \in 1..Len(trace.closes)}

\* C35: a protection pass and an update (and a new trade) send no stop change, no
\* partial close and no close for a live position whose magic number is not the
\* engine's, and leave that position as it was
C35_ForeignPositionsUntouched ==
    [][trace'.op \in {"protect", "manual", "alert"} =>
         /\ Foreign(mt5_positions) \subseteq mt5_positions'
         /\ \A p \in Foreign(mt5_positions) : Mt5Ticket(p.ticket) \notin Touched']_vars

\* a pass moved the stop of the engine's position while a position of another magic
\* number on the same symbol, past the same target and with its stop on the losing
\* side, was live
C35_Witness ==
    /\ trace.op = "protect"
    /\ trace.sl_reqs # <<>>
    /\ \E p \in Foreign(mt5_positions) :
          /\ p.type = "BUY"
          /\ p.sl < p.price_open
          /\ \E k \in 1..Len(active_signals) :
                /\ active_signals[k].sig.symbol = p.symbol
                /\ Reached(p, mt5_market[p.symbol], active_signals[k].sig.tps[1])

-----------------------------------------------------------------------------
(* Several tracked entries of one symbol *)

\* the tracked entry that carries the ticket, 0 when none does
OwnEntry(as, ticket) ==
    First(as, {k \in 1..Len(as) : as[k].sig.ticket = Mt5Ticket(ticket)})

\* the partial closes a pass sent for a ticket at a step
PartialsSent(closes, ticket, which) ==
    {i \in 1..Len(closes) : closes[i].ticket = ticket /\ closes[i].which = which}

\* every live position has a tracked entry that carries its ticket
AllTracked == \A p \in mt5_positions : OwnEntry(active_signals, p.ticket) # 0

\* C36: in a protection pass a position is evaluated against the tracked entry that
\* carries its ticket, also when several entries share its symbol: a TP1 partial
\* close is sent for a position only when the TP1 of its own entry is reached, and a
\* progress flag of an entry is set only by a partial close of that entry's own ticket
C36_OwnEntryEvaluated ==
    [][(trace'.op = "protect" /\ AllTracked) =>
         /\ \A p \in mt5_positions :
              PartialsSent(trace'.closes, p.ticket, "tp1") # {}
              => Reached(p, mt5_market[p.symbol],
                         active_signals[OwnEntry(active_signals, p.ticket)].sig.tps[1])
         /\ \A k \in 1..Len(active_signals) :
              /\ (~active_signals[k].sig.tp1_closed /\ active_signals'[k].sig.tp1_closed)
                 => PartialsSent(trace'.closes, active_signals[k].sig.ticket.num, "tp1")
                       # {}
              /\ (~active_signals[k].sig.tp2_closed /\ active_signals'[k].sig.tp2_closed)
                 => PartialsSent(trace'.closes, active_signals[k].sig.ticket.num, "tp2")
                       # {}]_vars

-----------------------------------------------------------------------------
(* The monitor loop over positions that cannot be evaluated *)

EvalAlerts == {NewTrade("EURUSD", "BUY", "forex", 1)}

EvalQuotes == [bid : {170, 230}, spread : {2}]

\* the first start of a fresh store while the terminal holds a position the engine
\* opened in an earlier life and whose take-profit was removed at the terminal since:
\* positions_get(magic=...) lists it with tp 0.0
InitEval ==
    /\ phase = "down"
    /\ now = StartTime
    /\ config \in ResolveConfigs
    /\ active_signals = <<>>
    /\ trade_history = <<>>
    /\ recent_signals = <<>>
    /\ bybit_status = "INITIALIZING"
    /\ new_trades_enabled = TRUE
    /\ db_signals = <<>>
    /\ db_history = <<>>
    /\ mt5_positions = {Mt5Position(1, "EURUSD", "BUY", Quoted.entry, Quoted.buy_sl, 0, 2)}
    /\ next_ticket = 2
    /\ mt5_market = [s \in Symbols |-> [bid |-> 200, spread |-> 2]]
    /\ bybit_positions = {}
    /\ trace = NoTrace
    /\ last_accepted = <<>>
    /\ opened = {}
    /\ partials = {}
    /\ last_pass = NoPass
    /\ sched = Idle

\* one pass of the monitor loop, every request answered DONE
MonitorPass == \E env \in ProtectEnvs : ProtectionPass(env)

NextEval ==
    \/ BootStep({"AUTHENTICATED"})
    \/ \E a \in EvalAlerts : \E env \in ProtectEnvs : OnMessage(a, env)
    \/ MonitorPass
    \/ \E q \in EvalQuotes : QuoteMove("EURUSD", q)

\* while True: ... await asyncio.sleep(1): the running engine keeps making passes
SpecEval == InitEval /\ [][NextEval]_vars /\ WF_vars(MonitorPass)

\* the engine runs and position t is live, opened by the engine and tracked under its
\* ticket, its own TP1 is reached, its stop is on the losing side of its entry and
\* the breakeven stop the clamp allows would tighten it
AwaitsBreakeven(t) ==
    /\ phase = "running"
    /\ \E p \in mt5_positions :
          /\ p.ticket = t
          /\ OwnMagic(p)
          /\ OwnEntry(active_signals, t) # 0
          /\ LET sd == active_signals[OwnEntry(active_signals, t)].sig
             IN /\ ~sd.restored
                /\ Reached(p, mt5_market[p.symbol], sd.tps[1])
          /\ LosingSide(p)
          /\ ~MovesBackwards(p, BreakevenStop(p))

\* the last pass asked for the breakeven stop of position t
BreakevenAsked(t) ==
    /\ trace.op = "protect"
    /\ \E i \in 1..Len(trace.sl_reqs) :
          trace.sl_reqs[i].ticket = Mt5Ticket(t) /\ trace.sl_reqs[i].src = "be"

\* C37: whatever other positions are tracked, a live position of the engine whose TP1
\* is reached and whose stop is on the losing side eventually receives a breakeven
\* request (or stops being in that situation)
C37_BreakevenEventually ==
    \A t \in 1..MaxTickets :
        AwaitsBreakeven(t) ~> (BreakevenAsked(t) \/ ~AwaitsBreakeven(t))

-----------------------------------------------------------------------------
(* Standby: POST /engine/toggle-trades *)

\* toggle_trades (run.py): flips the flag of the running engine
ToggleTrades ==
    /\ phase = "running"
    /\ new_trades_enabled' = ~new_trades_enabled
    /\ trace' = [NoTrace EXCEPT !.op = "toggle"]
    /\ UNCHANGED <<phase, now, config, engineVars, storeVars, venueVars, ghostVars,
                   sched>>

StandbyAlerts ==
    {NewTrade("EURUSD", "BUY", "forex", 1), NewTrade("BTCUSDT", "BUY", "crypto", 1)}

StandbyUpdates == {Update("EURUSD", "BUY", "forex", "CLOSE", 0),
                   Update("EURUSD", "BUY", "forex", "MOVE_SL", 210)}

StandbyQuotes == [bid : {230}, spread : {2}]

InitStandby == InitWith(SchedConfigs, {<<>>})

NextStandby ==
    \/ BootStep({"AUTHENTICATED"})
    \/ Tick(1, MaxTime)
    \/ ToggleTrades
    \/ \E a \in StandbyAlerts : \E env \in ProtectEnvs : OnMessage(a, env)
    \/ \E a \in StandbyUpdates : \E env \in ProtectEnvs : ManualSignal(a, env)
    \/ \E env \in ProtectEnvs : ProtectionPass(env)
    \/ \E q \in StandbyQuotes : QuoteMove("EURUSD", q)

SpecStandby == InitStandby /\ [][NextStandby]_vars

SkippedRecord(signal) == HistoryRecord(signal.symbol, "--", "Skipped (Standby)", FALSE)

\* the last handler took a new-trade signal past the dedup gate and the spread check
NewTradeHandled ==
    /\ trace.op \in {"alert", "manual"}
    /\ trace.op = "alert" => trace.dedup = "accepted"
    /\ trace.signal.action = "none"
    /\ trace.spread # "fail"

-----------------------------------------------------------------------------
(* The money at risk of a sized trade *)

\* C39: for a stop away from the entry the money at risk implied by the returned size
\* is at most balance times the risk fraction: size * distance on the exchange (size
\* in quantity steps), size * distance / tick size * tick value at the broker (size in
\* volume steps of 0.01 lot)
C39_RiskWithinBudget ==
    /\ Called("calculate_bybit_qty") =>
         LET a == trace.call.args
             dist == Abs(a.entry - a.sl)
         IN dist # 0 =>
               trace.call.result * dist * 100
                  <= a.balance * default_risk_percent * a.rules.steps_per_unit
    /\ Called("calculate_mt5_lot") =>
         LET a == trace.call.args
             dist == Abs(a.entry - a.sl)
         IN dist # 0 =>
               trace.call.result * dist * a.info.trade_tick_value
                  <= a.balance * default_risk_percent * a.info.trade_tick_size

-----------------------------------------------------------------------------
(* The partial take-profits of a progressive exchange order (lines 1163-1204) *)

\* the largest order quantity of the model, in quantity steps
MaxQty == 40

\* for i, tp_price in enumerate(signal['tps']): the sizes passed to set_trading_stop, in
\* units of qtyStep; num is num_tps_to_set, acc is accumulated_qty
RECURSIVE PartialTpSizes(_, _, _, _, _, _)
PartialTpSizes(qty, splits, min_qty, num, i, acc) ==
    IF i > num THEN <<>>
    ELSE LET floored == IF i = num THEN qty - acc ELSE FloorDiv(qty * splits[i], 100)
             chunk_size == Max(min_qty, floored)
         IN IF chunk_size > 0
            THEN <<chunk_size>> \o PartialTpSizes(qty, splits, min_qty, num, i + 1,
                                                  acc + chunk_size)
            ELSE PartialTpSizes(qty, splits, min_qty, num, i + 1, acc)

\* the loop of _execute_bybit for an order of qty and a signal with ntps take-profits
SetPartialTps(qty, min_qty, ntps) ==
    Call("PartialTpSizes",
         [qty |-> qty, ntps |-> ntps, splits |-> config.tp_split, min_qty |-> min_qty],
         PartialTpSizes(qty, config.tp_split, min_qty, Min(ntps, Len(config.tp_split)),
                        1, 0))

PartialConfigs ==
    {c \in Configs : c.mt5_enabled /\ c.bybit_enabled /\ c.tp_mode = "progressive"}

InitPartials == InitWith(PartialConfigs, {<<>>})

\* calculate_bybit_qty returns more than the minimum quantity; the parser hands over
\* one to four take-profit prices
NextPartials ==
    \E min_qty \in {1, 5} : \E qty \in (min_qty + 1)..MaxQty : \E ntps \in 1..4 :
        SetPartialTps(qty, min_qty, ntps)

SpecPartials == InitPartials /\ [][NextPartials]_vars

RECURSIVE SumSizes(_, _)
SumSizes(sizes, i) == IF i > Len(sizes) THEN 0 ELSE sizes[i] + SumSizes(sizes, i + 1)

\* C40: the partial take-profit sizes set for a progressive exchange order sum to
\* exactly the order quantity (so never exceed it)
C40_PartialsSumToQty ==
    Called("PartialTpSizes") => SumSizes(trace.call.result, 1) = trace.call.args.qty

====
